---- MODULE Spec2Model ----
(***************************************************************************)
(* Verification model of d3bu99er/rybavvode: the forum synchronisation      *)
(* pipeline (app/services/sync_service.py), its cookie manager              *)
(* (app/services/forum_auth.py) and the persistence gateway                 *)
(* (app/services/repository.py).                                            *)
(*                                                                          *)
(* Specifications:                                                          *)
(*   SpecAuth  concurrent callers of ForumAuthService.ensure_cookie         *)
(*   Spec      SyncService.run, retry_post_attachments and the admin        *)
(*             operations over the store, the attachment directory and a    *)
(*             changing upstream forum                                      *)
(*   SpecDl    one SyncService._download_attachment call after another      *)
(*   SpecGeo   geocode calls of the two providers                           *)
(*   SpecFetch concurrent ForumScraper._fetch calls on one instance         *)
(*   SpecRepo  repository queries and admin writes on a seeded store        *)
(*   SpecText  ForumScraper.title_to_place_name on titles                   *)
(*   SpecSched startup_event and the interval job of app/main.py            *)
(*   SpecListing  ForumScraper.fetch_topics on listing pages                *)
(*   SpecPosts    ForumScraper.fetch_topic_posts on a topic's pages         *)
(*   SpecCand     the geocoders' choice among the candidates of an answer   *)
(*   SpecForm     ForumAuthService._login choosing the form it submits      *)
(*   SpecGate     the admin panel behind its session flag                   *)
(*   SpecLoop     one run(), a step for each network call, with fairness    *)
(***************************************************************************)
EXTENDS Integers, Sequences, FiniteSets, TLC

(***************************************************************************)
(* Bounds                                                                   *)
(***************************************************************************)
\* number of coroutines that call ensure_cookie on one ForumAuthService
NCallers == 2

Callers == 1..NCallers

\* number of topics the forum listing shows
NTopics == 2
\* number of run() invocations in one behaviour
MaxRuns == 2
\* number of changes of the upstream (forum, geocoder, attachment server)
MaxChanges == 1
\* number of admin operations in one behaviour
MaxAdminOps == 1
\* number of store errors (an upsert or a commit raising) in one behaviour
MaxFaults == 1
\* the clock runs from 0 to MaxClock; one tick is geocode_ttl_days days
MaxClock == 2
\* number of _download_attachment calls in one behaviour
MaxDownloads == 2
\* number of coroutines inside _fetch of one ForumScraper
NFetchers == 2
\* number of _fetch calls in one behaviour
MaxFetches == 3
\* the max_concurrency setting ranges over 0..MaxConcurrencySetting
MaxConcurrencySetting == 2
\* number of repository calls in one behaviour of SpecRepo
MaxRepoOps == 2
\* the longest title given to title_to_place_name
MaxTitleLen == 5
\* max_forum_pages: listing pages fetch_topics asks for
MaxForumPages == 3
\* the largest max_topic_pages a scraper is made with
MaxTopicPages == 2
\* the most candidates in one geocoder answer
MaxCandidates == 3
\* the most forms on a login page
MaxForms == 3
\* requests of the admin panel's browser in a behaviour
MaxRequests == 3
\* topics the listing pages of a run hold between them
MaxListed == 2
\* the highest page a topic's page links name
MaxLastPage == 3
\* attachments of the posts of one topic
MaxAtts == 2
\* interval ticks in a behaviour
MaxTicks == 8
\* max_instances of a job added without it: the scheduler's job default
MaxInstances == 1

\* cookie header strings: "" is the empty string, "fb" a configured
\* forum_session_cookie, "s1"/"s2" headers captured by two different logins
FreshCookies == {"s1", "s2"}
FallbackCookies == {"", "fb"}

VARIABLES
  \* ---- ForumAuthService (forum_auth.py) ----
  has_credentials,   \* bool(username and password)
  login_url,         \* _resolve_login_url(): "" or "url"
  fallback_cookie,   \* self.fallback_cookie
  cached_cookie,     \* self._cached_cookie
  lock_holder,       \* self._cookie_lock: caller holding it, 0 when free
  lock_waiters,      \* self._cookie_lock: FIFO of callers blocked in acquire
  apc,               \* position of each caller inside ensure_cookie
  force_refresh,     \* argument of each caller's ensure_cookie call
  fresh_cookie,      \* local fresh_cookie of each call ("" until _login returns)
  aret,              \* value returned by each call
  \* history of the current call of each caller
  seen_cache,        \* _cached_cookie as read at forum_auth.py:126
  did_login,         \* the call reached self._login()
  arrived_during,    \* a login was in progress when the call was made
  succ_while_wait    \* a login returned a cookie while the caller waited for the lock

authVars == <<has_credentials, login_url, fallback_cookie, cached_cookie,
              lock_holder, lock_waiters, apc, force_refresh, fresh_cookie, aret,
              seen_cache, did_login, arrived_during, succ_while_wait>>

VARIABLES
  \* ---- the clock and the upstream ----
  now,           \* datetime.now(UTC), in ticks
  up_title,      \* raw title of each topic in the forum listing
  up_ver,        \* revision of the first post of topic 1
  up_atts,       \* attachment URLs of the first post of topic 1, in page order
  up_extra,      \* topic 1 has a second post
  up_bad_date,   \* topic whose page holds an unparseable timestamp, 0 for none
  geo_mode,      \* geocoding API: "ok", "none" (no candidate, no key) or "error"
  att_ok,        \* the forum serves attachment bytes to this service
  changes,       \* number of upstream changes so far
  \* ---- the store (models.py), the sequences and the attachment directory ----
  source_id,     \* id of the Source row, 0 while there is none
  db,            \* committed rows: [topics, posts, attachments]
  seqs,          \* next primary key of each table
  files,         \* files under attachments_dir: [path, url] (url: whose bytes)
  \* ---- SyncService.run ----
  rpc,           \* "idle" or "topics" (inside the loop of line 147)
  run_topics,    \* topics: the list fetch_topics returned
  rk,            \* position of the loop in run_topics
  runs,          \* number of run() invocations so far
  admin_ops,     \* number of admin operations so far
  faults,        \* number of store errors so far
  \* ---- history ----
  run_log,       \* outcome of each topic handled in the current run
  last_step,     \* what the last topic iteration did
  last_retry,    \* what the last retry_post_attachments call did
  dirty,         \* an upstream change, store error or admin operation happened
                 \* since the current (or last) run began
  stable,        \* completed runs in a row with no upstream change, store
                 \* error or admin operation since the first of them began
  last_end,      \* db when the last run returned
  prev_end       \* db when the run before it returned

syncVars == <<now, up_title, up_ver, up_atts, up_extra, up_bad_date, geo_mode,
              att_ok, changes, source_id, db, seqs, files, rpc, run_topics, rk,
              runs, admin_ops, faults, run_log, last_step, last_retry, dirty,
              stable,
              last_end, prev_end>>

VARIABLES
  \* ---- SyncService._download_attachment, the call in progress ----
  dpc,           \* "idle", "get" (line 87), "returned", "stored" (row upserted)
  d_calls,       \* number of calls so far
  d_cookie,      \* local `cookie`
  d_attempt,     \* local `attempt`
  d_file,        \* local_abs_path exists
  d_result,      \* "pending", "none" (returned None) or "ok" (returned a tuple)
  d_row_path,    \* local_rel_path of the attachment's row
  \* history of the current call
  d_gets,        \* GETs sent
  d_forced,      \* ensure_cookie(force_refresh=True) calls made
  d_resps,       \* the answers to the GETs, in order
  d_row_before   \* local_rel_path of the row when the call was made

dlVars == <<dpc, d_calls, d_cookie, d_attempt, d_file, d_result, d_row_path,
            d_gets, d_forced, d_resps, d_row_before>>

VARIABLES
  \* ---- one geocode(place_name) call of a provider (geocoding.py) ----
  g_provider,    \* "google" or "yandex"
  g_key,         \* self.api_key is non-empty
  g_http,        \* what client.get and raise_for_status come to
  g_body,        \* what the response body holds
  g_out          \* "pending", "none" (returned None), "result" or "raised"

geoVars == <<g_provider, g_key, g_http, g_body, g_out>>

VARIABLES
  \* ---- ForumScraper (forum_scraper.py), one instance ----
  max_concurrency,  \* the setting passed to __init__
  permits,          \* self.semaphore: permits left
  robot_parser,     \* self._robot_parser: "none", or the parser as its
                    \* read() left it
  fpc,              \* position of each _fetch call
  f_url,            \* argument url of each call
  f_attempt,        \* local `attempt` of each call
  f_result,         \* "pending", "" (empty body) or "body"
  f_calls,          \* number of _fetch calls so far
  \* history
  f_outcomes,       \* answers to the GETs of each call, in order
  f_robots,         \* what _allowed_by_robots came to in each call
  robots_reads,     \* number of rp.read() calls of the instance
  robots_failed,    \* one of them did not get the file parsed
  undelayed         \* per call: its GET completed and its sleep has not
                    \* ended since

fetchVars == <<max_concurrency, permits, robot_parser, fpc, f_url, f_attempt,
               f_result, f_calls, f_outcomes, f_robots, robots_reads,
               robots_failed, undelayed>>

VARIABLES
  \* ---- calls of the repository functions on a store (repository.py) ----
  r_log          \* the calls so far: function, id, returned value, db before
                 \* and after

repoVars == <<r_log>>


VARIABLES
  \* ---- title_to_place_name applied to a title (forum_scraper.py) ----
  tpc,           \* "off", "title" (given), "place" (called), "again" (called
                 \* on its own result)
  t_title,       \* the title given
  t_place,       \* title_to_place_name(t_title)
  t_again        \* title_to_place_name(t_place)

textVars == <<tpc, t_title, t_place, t_again>>


VARIABLES
  \* ---- the application's scheduling of run() (main.py) ----
  spc,           \* "down" before startup_event, "up" after it
  s_startup,     \* the task created at startup: "none", "running", "done"
  s_instances,   \* instances of the interval job scrape_forum now executing
  s_ticks,       \* interval ticks so far
  s_skipped,     \* ticks at which the scheduler started no instance
  s_finished     \* invocations of run() that have returned

schedVars == <<spc, s_startup, s_instances, s_ticks, s_skipped, s_finished>>


VARIABLES
  \* ---- one call of fetch_topics on the listing pages (forum_scraper.py) ----
  lpc,           \* "off", "pages" (in the loop over pages), "done" (returned)
  l_pages,       \* what each listing page holds when fetched
  l_page,        \* the loop variable page
  l_topics,      \* the dict topics: its items in the dict's order
  l_requested,   \* the page numbers given to _fetch so far
  l_result       \* the list returned

listingVars == <<lpc, l_pages, l_page, l_topics, l_requested, l_result>>


VARIABLES
  \* ---- one call of fetch_topic_posts on a topic (forum_scraper.py) ----
  ppc,           \* "off", "probe" (called), "pages" (in the loop over pages),
                 \* "done" (returned), "raised"
  p_max,         \* max_topic_pages of the scraper
  p_first,       \* what _topic_last_page gets for the topic's first page
  p_last,        \* last_page
  p_page,        \* the loop variable page
  p_requested,   \* the page numbers given to _fetch in the loop
  p_fetched,     \* what each of those fetches returned
  p_posts,       \* the dict posts: its items in the dict's order
  p_result       \* the list returned

postsVars == <<ppc, p_max, p_first, p_last, p_page, p_requested, p_fetched,
               p_posts, p_result>>


VARIABLES
  \* ---- a provider's choice among the candidates of one answer (geocoding.py) ----
  cpc,           \* "off", "answer" (payload received), "done" (returned)
  c_provider,    \* "google" or "yandex"
  c_cands,       \* the candidates of the payload, in the payload's order
  c_best         \* the GeocodeResult returned: position of the candidate its
                 \* coordinates come from, and confidence in tenths

candVars == <<cpc, c_provider, c_cands, c_best>>


VARIABLES
  \* ---- _login on a login page: the form it submits (forum_auth.py) ----
  mpc,           \* "off", "page" (login page received), "form" (payload
                 \* extracted), "done" (_login returned)
  m_forms,       \* the forms of the login page, in document order
  m_form,        \* position of the form _extract_form_payload took, 0: none
  m_posted       \* client.post was called

formVars == <<mpc, m_forms, m_form, m_posted>>

VARIABLES
  \* ---- the admin panel: one browser session and its requests (admin.py) ----
  a_session,     \* request.session[SESSION_KEY] is set and true
  a_log          \* the requests handled so far, one record each

gateVars == <<a_session, a_log>>

VARIABLES
  \* ---- one invocation of run(), network call by network call ----
  loop           \* run()'s position and loop variables, and the calls counted

loopVars == <<loop>>

vars == <<authVars, syncVars, dlVars, geoVars, fetchVars, repoVars,
         textVars,
         schedVars,
         listingVars,
         postsVars,
         candVars,
         formVars,
         gateVars,
         loopVars>>

\* what an action of one component leaves alone
nonAuthVars == <<syncVars, dlVars, geoVars, fetchVars, repoVars, textVars,
                 schedVars, listingVars, postsVars, candVars, formVars,
                 gateVars, loopVars>>
nonSyncVars == <<authVars, dlVars, geoVars, fetchVars, repoVars, textVars,
                 schedVars, listingVars, postsVars, candVars, formVars,
                 gateVars, loopVars>>
nonDlVars == <<authVars, syncVars, geoVars, fetchVars, repoVars, textVars,
               schedVars, listingVars, postsVars, candVars, formVars,
               gateVars, loopVars>>
nonAuthDlVars == <<syncVars, geoVars, fetchVars, repoVars, textVars,
                   schedVars, listingVars, postsVars, candVars, formVars,
                   gateVars, loopVars>>
nonGeoVars == <<authVars, syncVars, dlVars, fetchVars, repoVars, textVars,
                schedVars, listingVars, postsVars, candVars, formVars,
                gateVars, loopVars>>
nonFetchVars == <<authVars, syncVars, dlVars, geoVars, repoVars, textVars,
                  schedVars, listingVars, postsVars, candVars, formVars,
                  gateVars, loopVars>>
\* the repository calls work on db and the clock of the store
nonSyncRepoVars == <<authVars, dlVars, geoVars, fetchVars, textVars,
                     schedVars, listingVars, postsVars, candVars, formVars,
                     gateVars, loopVars>>
nonSyncGateVars == <<authVars, dlVars, geoVars, fetchVars, repoVars,
                     textVars, schedVars, listingVars, postsVars, candVars,
                     formVars, loopVars>>
nonTextVars == <<authVars, syncVars, dlVars, geoVars, fetchVars, repoVars,
                 schedVars, listingVars, postsVars, candVars, formVars,
                 gateVars, loopVars>>
nonSchedVars == <<authVars, syncVars, dlVars, geoVars, fetchVars, repoVars,
                  textVars, listingVars, postsVars, candVars, formVars,
                  gateVars, loopVars>>
nonListingVars == <<authVars, syncVars, dlVars, geoVars, fetchVars, repoVars,
                    textVars, schedVars, postsVars, candVars, formVars,
                    gateVars, loopVars>>
nonPostsVars == <<authVars, syncVars, dlVars, geoVars, fetchVars, repoVars,
                  textVars, schedVars, listingVars, candVars, formVars,
                  gateVars, loopVars>>
nonCandVars == <<authVars, syncVars, dlVars, geoVars, fetchVars, repoVars,
                 textVars, schedVars, listingVars, postsVars, formVars,
                 gateVars, loopVars>>
nonFormVars == <<authVars, syncVars, dlVars, geoVars, fetchVars, repoVars,
                 textVars, schedVars, listingVars, postsVars, candVars,
                 gateVars, loopVars>>
nonGateVars == <<authVars, syncVars, dlVars, geoVars, fetchVars, repoVars,
                 textVars, schedVars, listingVars, postsVars, candVars,
                 formVars, loopVars>>
nonLoopVars == <<authVars, syncVars, dlVars, geoVars, fetchVars, repoVars,
                 textVars, schedVars, listingVars, postsVars, candVars,
                 formVars, gateVars>>

(***************************************************************************)
(* ForumAuthService                                                         *)
(***************************************************************************)
LoginPcs == {"login_get", "login_post"}

\* __init__: the cache starts empty with credentials, else as the fallback
InitialCache(creds, fallback) == IF creds THEN "" ELSE fallback

\* asyncio.Lock.acquire without blocking: the lock is free and nobody queues
CanAcquireAlways(holder, waiters) == TRUE
CanAcquire(holder, waiters) == holder = 0 /\ waiters = <<>>

\* ensure_cookie lines 122-123: without credentials the fallback is returned
SkipsLoginNever(creds) == FALSE
SkipsLogin(creds) == ~creds

\* ensure_cookie line 126: serve the cache without a login
ServeCacheNever(cached, force) == FALSE
ServeCache(cached, force) == cached # "" /\ ~force

\* whatever _login returned is stored
CacheAfterLoginAlways(cached, fresh) == fresh
\* ensure_cookie lines 130-134: the cache after _login returned `fresh`
CacheAfterLogin(cached, fresh) == IF fresh # "" THEN fresh ELSE cached

\* ensure_cookie lines 130-134: the value returned after _login returned `fresh`
ReturnAfterLoginFallback(cached, fresh, fallback) ==
  IF fresh # "" THEN fresh ELSE fallback
ReturnAfterLogin(cached, fresh, fallback) ==
  IF fresh # "" THEN fresh
  ELSE IF cached # "" THEN cached ELSE fallback

\* `async with self._cookie_lock` exit (asyncio.Lock.release wakes the first
\* waiter, and a newcomer queues behind it): the lock goes to the first waiter
Release(c) ==
  IF lock_waiters = <<>>
  THEN /\ lock_holder' = 0
       /\ lock_waiters' = lock_waiters
       /\ apc' = [apc EXCEPT ![c] = "done"]
  ELSE /\ lock_holder' = Head(lock_waiters)
       /\ lock_waiters' = Tail(lock_waiters)
       /\ apc' = [apc EXCEPT ![c] = "done", ![Head(lock_waiters)] = "locked"]

\* ensure_cookie lines 121-125: entry, the no-credentials return, lock acquire
EnsureCookieCall(c, force) ==
  /\ apc[c] = "idle"
  /\ UNCHANGED nonAuthVars
  /\ force_refresh' = [force_refresh EXCEPT ![c] = force]
  /\ fresh_cookie' = [fresh_cookie EXCEPT ![c] = ""]
  /\ seen_cache' = [seen_cache EXCEPT ![c] = ""]
  /\ did_login' = [did_login EXCEPT ![c] = FALSE]
  /\ succ_while_wait' = [succ_while_wait EXCEPT ![c] = FALSE]
  /\ arrived_during' = [arrived_during EXCEPT
                          ![c] = \E d \in Callers : apc[d] \in LoginPcs]
  /\ IF SkipsLogin(has_credentials)
     THEN /\ aret' = [aret EXCEPT ![c] = fallback_cookie]
          /\ apc' = [apc EXCEPT ![c] = "done"]
          /\ UNCHANGED <<lock_holder, lock_waiters>>
     ELSE IF CanAcquire(lock_holder, lock_waiters)
     THEN /\ lock_holder' = c
          /\ apc' = [apc EXCEPT ![c] = "locked"]
          /\ UNCHANGED <<lock_waiters, aret>>
     ELSE /\ lock_waiters' = Append(lock_waiters, c)
          /\ apc' = [apc EXCEPT ![c] = "waiting"]
          /\ UNCHANGED <<lock_holder, aret>>
  /\ UNCHANGED <<has_credentials, login_url, fallback_cookie, cached_cookie>>

\* ensure_cookie lines 126-129: under the lock, serve the cache or start _login
EnsureCookieLocked(c) ==
  /\ apc[c] = "locked"
  /\ UNCHANGED nonAuthVars
  /\ seen_cache' = [seen_cache EXCEPT ![c] = cached_cookie]
  /\ IF ServeCache(cached_cookie, force_refresh[c])
     THEN /\ aret' = [aret EXCEPT ![c] = cached_cookie]
          /\ Release(c)
          /\ UNCHANGED <<did_login>>
     ELSE /\ apc' = [apc EXCEPT ![c] = "login_get"]
          /\ did_login' = [did_login EXCEPT ![c] = TRUE]
          /\ UNCHANGED <<aret, lock_holder, lock_waiters>>
  /\ UNCHANGED <<has_credentials, login_url, fallback_cookie, cached_cookie,
                 force_refresh, fresh_cookie, arrived_during, succ_while_wait>>

\* ensure_cookie lines 129-134: _login returned `fresh`; store, return, unlock
LoginReturned(c, fresh) ==
  /\ fresh_cookie' = [fresh_cookie EXCEPT ![c] = fresh]
  /\ cached_cookie' = CacheAfterLogin(cached_cookie, fresh)
  /\ aret' = [aret EXCEPT
                ![c] = ReturnAfterLogin(cached_cookie, fresh, fallback_cookie)]
  /\ succ_while_wait' =
       [d \in Callers |->
          IF fresh # "" /\ apc[d] = "waiting" THEN TRUE ELSE succ_while_wait[d]]
  /\ Release(c)
  /\ UNCHANGED <<has_credentials, login_url, fallback_cookie, force_refresh,
                 seen_cache, did_login, arrived_during>>

\* _login lines 88-102: resolve the URL, GET the login page, find the form.
\* page is the outcome of the GET: "form" (2xx with a login form), "no_form"
\* (2xx without one) or "error" (transport error or non-2xx status)
LoginGetPage(c, page) ==
  /\ apc[c] = "login_get"
  /\ UNCHANGED nonAuthVars
  /\ IF login_url # "" /\ page = "form"
     THEN /\ apc' = [apc EXCEPT ![c] = "login_post"]
          /\ UNCHANGED <<cached_cookie, lock_holder, lock_waiters, fresh_cookie,
                         aret, succ_while_wait, has_credentials, login_url,
                         fallback_cookie, force_refresh, seen_cache, did_login,
                         arrived_during>>
     ELSE LoginReturned(c, "")

\* _login lines 104-119: POST the form and read the cookie jar back.
\* jar is the outcome of the POST: "error" (transport error or non-2xx), ""
\* (no cookie captured) or the header built from the cookie jar
LoginPostForm(c, jar) ==
  /\ apc[c] = "login_post"
  /\ UNCHANGED nonAuthVars
  /\ LoginReturned(c, IF jar = "error" THEN "" ELSE jar)

\* the caller takes the returned cookie; it may call again
EnsureCookieReturn(c) ==
  /\ apc[c] = "done"
  /\ UNCHANGED nonAuthVars
  /\ apc' = [apc EXCEPT ![c] = "idle"]
  /\ UNCHANGED <<has_credentials, login_url, fallback_cookie, cached_cookie,
                 lock_holder, lock_waiters, force_refresh, fresh_cookie, aret,
                 seen_cache, did_login, arrived_during, succ_while_wait>>

InitAuthService ==
  /\ has_credentials \in BOOLEAN
  /\ login_url \in {"", "url"}
  /\ fallback_cookie \in FallbackCookies
  /\ cached_cookie = InitialCache(has_credentials, fallback_cookie)
  /\ lock_holder = 0
  /\ lock_waiters = <<>>
  /\ apc = [c \in Callers |-> "idle"]
  /\ force_refresh = [c \in Callers |-> FALSE]
  /\ fresh_cookie = [c \in Callers |-> ""]
  /\ aret = [c \in Callers |-> ""]
  /\ seen_cache = [c \in Callers |-> ""]
  /\ did_login = [c \in Callers |-> FALSE]
  /\ arrived_during = [c \in Callers |-> FALSE]
  /\ succ_while_wait = [c \in Callers |-> FALSE]

NextAuth ==
  \/ \E c \in Callers, force \in BOOLEAN : EnsureCookieCall(c, force)
  \/ \E c \in Callers : EnsureCookieLocked(c)
  \/ \E c \in Callers, page \in {"form", "no_form", "error"} : LoginGetPage(c, page)
  \/ \E c \in Callers, jar \in {"error", ""} \cup FreshCookies : LoginPostForm(c, jar)
  \/ \E c \in Callers : EnsureCookieReturn(c)

(***************************************************************************)
(* Values                                                                   *)
(***************************************************************************)
\* None of a nullable column, by column type
NullNum == 0 - 1
NullStr == "null"
NullPath == <<>>

\* config.py: geocode_ttl_days, in ticks of the clock
TtlTicks == 1
\* config.py: download_attachments and geocoder_provider
download_attachments == TRUE
geocoder_provider == "yandex"

TopicExt == 1..NTopics

\* text is a sequence of one-character strings
Whitespace == {" ", "\t"}
Alnum == {"A", "B", "C", "f", "j", "p", "g", "1", "2"}
RawTitles == {<<" ", "A", " ", "\t", "B", " ">>, <<"C">>}
AttUrls == {"a", "b"}
AttLists == {<<>>, <<"a">>, <<"b", "a">>}

(***************************************************************************)
(* ForumScraper: text helpers (forum_scraper.py)                            *)
(***************************************************************************)
\* re.sub(r"\s+", " ", text): every run of whitespace becomes one space
RECURSIVE CollapseWs(_)
CollapseWs(t) ==
  IF t = <<>> THEN <<>>
  ELSE IF Head(t) \in Whitespace
       THEN IF Len(t) > 1 /\ t[2] \in Whitespace
            THEN CollapseWs(Tail(t))
            ELSE <<" ">> \o CollapseWs(Tail(t))
       ELSE <<Head(t)>> \o CollapseWs(Tail(t))

\* str.strip(): leading and trailing whitespace removed
RECURSIVE Strip(_)
Strip(t) ==
  IF t = <<>> THEN <<>>
  ELSE IF Head(t) \in Whitespace THEN Strip(Tail(t))
  ELSE IF t[Len(t)] \in Whitespace THEN Strip(SubSeq(t, 1, Len(t) - 1))
  ELSE t

\* the substitution alone, nothing stripped
clean_text_unstripped(text) == CollapseWs(text)
\* clean_text lines 121-123
clean_text(text) == Strip(CollapseWs(text))

title_to_place_name(title) == clean_text(title)

\* fetch_topics lines 201-215: the stub extracted for one listed topic
ScrapedTopic(ext) ==
  LET title == clean_text(up_title[ext])
  IN  [external_id |-> ext,
       title       |-> title,
       url         |-> <<"threads", title, ext>>,
       place_name  |-> title_to_place_name(title)]

\* fetch_topics: the listing, one stub per external id
fetch_topics == [i \in 1..NTopics |-> ScrapedTopic(i)]

\* extract_attachments: one record per attachment link of a message block
ScrapedAttachment(u) ==
  [source_url |-> u, file_name |-> <<"f", " ", "1", ".", "j", "p", "g">>,
   is_image |-> TRUE]

\* fetch_topic_posts lines 242-268: the record built for one message block
ScrapedPost(ext, eid, ver, atts) ==
  [topic_external_id |-> ext,
   external_id   |-> eid,
   author        |-> <<"user", ver>>,
   posted_at_utc |-> ver,
   content_text  |-> <<"text", ver>>,
   url           |-> <<"posts", eid>>,
   attachments   |-> [i \in 1..Len(atts) |-> ScrapedAttachment(atts[i])]]

\* fetch_topic_posts: the posts of a topic's pages, in page order.  Topic 1
\* carries the changing post, every other topic one post with one attachment.
PostsOf(ext) ==
  IF ext = 1
  THEN <<ScrapedPost(1, 1, up_ver, up_atts)>>
       \o (IF up_extra THEN <<ScrapedPost(1, 2, 1, <<>>)>> ELSE <<>>)
  ELSE <<ScrapedPost(ext, 1, 1, <<"a">>)>>

\* fetch_topic_posts line 264: parse_datetime_to_utc raises on a value that is
\* no date, and nothing in fetch_topic_posts catches it
FetchPostsRaises(ext) == up_bad_date = ext

(***************************************************************************)
(* SyncService helpers (sync_service.py)                                    *)
(***************************************************************************)
\* _safe_file_name lines 66-73
safe_file_name(file_name) ==
  LET kept == [i \in 1..Len(file_name) |->
                 IF file_name[i] \in Alnum \cup {"-", "_", ".", " "}
                 THEN file_name[i] ELSE "_"]
      stripped == Strip(kept)
      sanitized == [i \in 1..Len(stripped) |->
                      IF stripped[i] = " " THEN "_" ELSE stripped[i]]
  IN  IF sanitized = <<>> THEN <<"attachment.bin">> ELSE sanitized

\* geocode_expired lines 135-139
geocode_expired_inclusive(topic, t) ==
  \/ topic.geocoded_lat = NullNum
  \/ topic.geocoded_lon = NullNum
  \/ topic.geocode_updated_at = NullNum
  \/ topic.geocode_updated_at <= t - TtlTicks
geocode_expired(topic, t) ==
  \/ topic.geocoded_lat = NullNum
  \/ topic.geocoded_lon = NullNum
  \/ topic.geocode_updated_at = NullNum
  \/ topic.geocode_updated_at < t - TtlTicks

\* GeocodingService.geocode for a place name: kind "ok" is a GeocodeResult,
\* "none" is None, "error" is an exception of the HTTP client
GeoAnswer(place_name) ==
  [kind |-> geo_mode, lat |-> Len(place_name), lon |-> Len(place_name) + 1,
   confidence |-> 8, provider |-> geocoder_provider]

\* what `_download_attachment` returns in the store model: (content-type,
\* length) after writing the file, or "none"; it never raises (see SpecDl)
DownloadResult(u) ==
  [ok |-> att_ok, mime_type |-> "image/jpeg", size_bytes |-> 1]

(***************************************************************************)
(* The persistence gateway (repository.py).  A session S is                 *)
(* [db: the rows it sees, seqs: the sequences, files: the directory].       *)
(***************************************************************************)
EmptyDb == [topics |-> {}, posts |-> {}, attachments |-> {}]

\* the SELECT of upsert_topic, line 20
FindTopicNever(S, source, ext) == {}
FindTopic(S, source, ext) ==
  {r \in S.db.topics : r.source_id = source /\ r.external_id = ext}

\* the SELECT of upsert_post, line 51
FindPostNever(S, topic_id, ext) == {}
FindPost(S, topic_id, ext) ==
  {r \in S.db.posts : r.topic_id = topic_id /\ r.external_id = ext}

\* the SELECT of upsert_post_attachment, lines 82-84
FindAttachment(S, post_id, u) ==
  {r \in S.db.attachments : r.post_id = post_id /\ r.source_url = u}

\* `if x is not None: row.x = x` of upsert_post_attachment, lines 88-93
SetIfGivenAlways(given, old, null) == given
SetIfGiven(given, old, null) == IF given # null THEN given ELSE old

\* upsert_topic lines 22-26: the fields written to a row that was found
RefreshTopicSeenOnly(topic, title, url, place_name, t) ==
  [topic EXCEPT !.last_seen_at = t]
RefreshTopic(topic, title, url, place_name, t) ==
  [topic EXCEPT !.title = title, !.url = url, !.place_name = place_name,
                !.last_seen_at = t]

\* upsert_topic lines 19-39; returns the session and the row's id
upsert_topic(S, source, ext, title, url, place_name, t) ==
  LET found == FindTopic(S, source, ext)
  IN  IF found # {}
      THEN LET topic == CHOOSE r \in found : TRUE
               row == RefreshTopic(topic, title, url, place_name, t)
           IN  [S |-> [S EXCEPT !.db.topics = (@ \ {topic}) \cup {row}],
                id |-> topic.id]
      ELSE LET row == [id |-> S.seqs.topic, source_id |-> source,
                       external_id |-> ext, title |-> title, url |-> url,
                       place_name |-> place_name,
                       geocoded_lat |-> NullNum, geocoded_lon |-> NullNum,
                       geocode_provider |-> NullStr,
                       geocode_confidence |-> NullNum,
                       geocode_updated_at |-> NullNum, last_seen_at |-> t]
           IN  [S |-> [S EXCEPT !.db.topics = @ \cup {row},
                                !.seqs.topic = @ + 1],
                id |-> row.id]

\* upsert_post lines 53-56: the fields written to a row that was found
RefreshPostUndeleting(post, p) ==
  [post EXCEPT !.author = p.author, !.posted_at_utc = p.posted_at_utc,
               !.content_text = p.content_text, !.url = p.url,
               !.is_deleted = FALSE, !.deleted_at = NullNum]
RefreshPost(post, p) ==
  [post EXCEPT !.author = p.author, !.posted_at_utc = p.posted_at_utc,
               !.content_text = p.content_text, !.url = p.url]

\* upsert_post lines 42-69; returns the session and the row's id
upsert_post(S, topic_id, p) ==
  LET found == FindPost(S, topic_id, p.external_id)
  IN  IF found # {}
      THEN LET post == CHOOSE r \in found : TRUE
               row == RefreshPost(post, p)
           IN  [S |-> [S EXCEPT !.db.posts = (@ \ {post}) \cup {row}],
                id |-> post.id]
      ELSE LET row == [id |-> S.seqs.post, topic_id |-> topic_id,
                       external_id |-> p.external_id, author |-> p.author,
                       posted_at_utc |-> p.posted_at_utc,
                       content_text |-> p.content_text, url |-> p.url,
                       is_deleted |-> FALSE, deleted_at |-> NullNum]
           IN  [S |-> [S EXCEPT !.db.posts = @ \cup {row},
                                !.seqs.post = @ + 1],
                id |-> row.id]

\* upsert_post_attachment lines 72-108; returns the session
upsert_post_attachment(S, post_id, a, local_rel_path, mime_type, size_bytes) ==
  LET found == FindAttachment(S, post_id, a.source_url)
  IN  IF found # {}
      THEN LET att == CHOOSE r \in found : TRUE
               row == [att EXCEPT
                         !.file_name = a.file_name,
                         !.is_image = a.is_image,
                         !.local_rel_path = SetIfGiven(local_rel_path, @, NullPath),
                         !.mime_type = SetIfGiven(mime_type, @, NullStr),
                         !.size_bytes = SetIfGiven(size_bytes, @, NullNum)]
           IN  [S EXCEPT !.db.attachments = (@ \ {att}) \cup {row}]
      ELSE LET row == [id |-> S.seqs.attachment, post_id |-> post_id,
                       source_url |-> a.source_url, file_name |-> a.file_name,
                       is_image |-> a.is_image,
                       local_rel_path |-> local_rel_path,
                       mime_type |-> mime_type, size_bytes |-> size_bytes]
           IN  [S EXCEPT !.db.attachments = @ \cup {row},
                         !.seqs.attachment = @ + 1]

\* Path.exists() and Path.write_bytes() on attachments_dir / rel_path
FileExists(fs, rel_path) == \E f \in fs : f.path = rel_path
WriteFile(fs, rel_path, u) ==
  {f \in fs : f.path # rel_path}
    \cup {[path |-> rel_path, url |-> u,
           urls |-> UNION {f.urls : f \in {g \in fs : g.path = rel_path}} \cup {u}]}

\* db.rollback(): the session's uncommitted rows are dropped
RollbackKeepsPending(committed, pending) == pending
Rollback(committed, pending) == committed

(***************************************************************************)
(* SyncService.run, one iteration of the loop of line 147                   *)
(***************************************************************************)
\* places where the store (an SQL statement, a flush, the commit) may raise
FailPoints == {"none", "upsert_topic", "upsert_post", "upsert_post_attachment",
               "commit"}

GeoFields(topic) ==
  [lat |-> topic.geocoded_lat, lon |-> topic.geocoded_lon,
   provider |-> topic.geocode_provider,
   confidence |-> topic.geocode_confidence,
   updated_at |-> topic.geocode_updated_at]

\* run lines 190-195: the geocode result written to the topic
ApplyGeoOrErase(topic, geo, t) ==
  [topic EXCEPT !.geocoded_lat = IF geo.kind = "ok" THEN geo.lat ELSE NullNum,
                !.geocoded_lon = IF geo.kind = "ok" THEN geo.lon ELSE NullNum,
                !.geocode_provider = geo.provider,
                !.geocode_confidence = geo.confidence,
                !.geocode_updated_at = t]
ApplyGeo(topic, geo, t) ==
  IF geo.kind = "ok"
  THEN [topic EXCEPT !.geocoded_lat = geo.lat, !.geocoded_lon = geo.lon,
                     !.geocode_provider = geo.provider,
                     !.geocode_confidence = geo.confidence,
                     !.geocode_updated_at = t]
  ELSE topic

\* run lines 168-187: the attachments of one post from the i-th on
\* (enumerate's idx is i - 1)
RECURSIVE AttachmentLoop(_, _, _, _, _)
AttachmentLoop(S, post_id, atts, i, fail) ==
  IF i > Len(atts) THEN [S |-> S, raised |-> FALSE]
  ELSE
    LET a == atts[i]
        rel_path == <<post_id, i - 1, safe_file_name(a.file_name)>>
        try == download_attachments /\ ~FileExists(S.files, rel_path)
        downloaded == DownloadResult(a.source_url)
        got == try /\ downloaded.ok
        S1 == [S EXCEPT !.files = IF got THEN WriteFile(@, rel_path, a.source_url)
                                  ELSE @]
        S2 == upsert_post_attachment(
                S1, post_id, a,
                IF FileExists(S1.files, rel_path) THEN rel_path ELSE NullPath,
                IF got THEN downloaded.mime_type ELSE NullStr,
                IF got THEN downloaded.size_bytes ELSE NullNum)
    IN  IF fail = "upsert_post_attachment"
        THEN [S |-> S1, raised |-> TRUE]
        ELSE AttachmentLoop(S2, post_id, atts, i + 1, fail)

\* run lines 158-187: the posts of the topic from the i-th on
RECURSIVE PostLoop(_, _, _, _, _)
PostLoop(S, topic_id, scraped, i, fail) ==
  IF i > Len(scraped) THEN [S |-> S, raised |-> FALSE]
  ELSE IF fail = "upsert_post" THEN [S |-> S, raised |-> TRUE]
  ELSE
    LET up == upsert_post(S, topic_id, scraped[i])
        al == AttachmentLoop(up.S, up.id, scraped[i].attachments, 1, fail)
    IN  IF al.raised THEN al
        ELSE PostLoop(al.S, topic_id, scraped, i + 1, fail)

NoGeoFields ==
  [lat |-> NullNum, lon |-> NullNum, provider |-> NullStr,
   confidence |-> NullNum, updated_at |-> NullNum]

StepResult(S, raised, reached, stale, called, kind, pre) ==
  [S |-> S, raised |-> raised, reached_geo |-> reached, stale |-> stale,
   called |-> called, kind |-> kind, pre |-> pre]

\* run lines 148-199: the body of the try for scraped topic st at time t;
\* the session reached, whether an exception ended it, and what the geocode
\* step saw and did
ProcessTopic(S, source, st, t, fail) ==
  IF fail = "upsert_topic"
  THEN StepResult(S, TRUE, FALSE, FALSE, FALSE, "none", NoGeoFields)
  ELSE
    LET ut == upsert_topic(S, source, st.external_id, st.title, st.url,
                           st.place_name, t)
    IN  IF FetchPostsRaises(st.external_id)
        THEN StepResult(ut.S, TRUE, FALSE, FALSE, FALSE, "none", NoGeoFields)
        ELSE
          LET pl == PostLoop(ut.S, ut.id, PostsOf(st.external_id), 1, fail)
          IN  IF pl.raised
              THEN StepResult(pl.S, TRUE, FALSE, FALSE, FALSE, "none", NoGeoFields)
              ELSE
                LET topic == CHOOSE r \in pl.S.db.topics : r.id = ut.id
                    stale == geocode_expired(topic, t)
                    geo == GeoAnswer(topic.place_name)
                    S3 == IF stale
                          THEN [pl.S EXCEPT !.db.topics =
                                  (@ \ {topic}) \cup {ApplyGeo(topic, geo, t)}]
                          ELSE pl.S
                IN  StepResult(S3,
                               (stale /\ geo.kind = "error") \/ fail = "commit",
                               TRUE, stale, stale,
                               IF stale THEN geo.kind ELSE "none",
                               GeoFields(topic))

\* run lines 147-199: the index of the topic the loop handles after the k-th
\* of n, whose iteration did or did not raise: the except clause of line 197
\* ends inside the loop body
NextIndexAbort(k, raised, n) == IF raised THEN n + 1 ELSE k + 1
NextIndex(k, raised, n) == k + 1

\* run lines 147-199: one iteration; commit on success, rollback on exception
TopicStep(fail) ==
  /\ rpc = "topics"
  /\ UNCHANGED nonSyncVars
  /\ rk <= Len(run_topics)
  /\ \E r \in {ProcessTopic([db |-> db, seqs |-> seqs, files |-> files],
                             source_id, run_topics[rk], now, fail)} :
       /\ db' = IF r.raised THEN Rollback(db, r.S.db) ELSE r.S.db
       /\ seqs' = r.S.seqs
       /\ files' = r.S.files
       /\ run_log' = Append(run_log, IF r.raised THEN "failed" ELSE "ok")
       /\ last_step' = [ext |-> run_topics[rk].external_id, at |-> now,
                        raised |-> r.raised, reached_geo |-> r.reached_geo,
                        called |-> r.called, kind |-> r.kind, pre |-> r.pre]
       /\ rk' = NextIndex(rk, r.raised, Len(run_topics))
  /\ fail # "none" => faults < MaxFaults
  /\ faults' = IF fail # "none" THEN faults + 1 ELSE faults
  /\ dirty' = (dirty \/ fail # "none")
  /\ UNCHANGED <<now, up_title, up_ver, up_atts, up_extra, up_bad_date, geo_mode,
                 att_ok, changes, source_id, rpc, run_topics, runs, admin_ops,
                 stable, last_end, prev_end, last_retry>>

\* run lines 142-146: cookie, Source row, commit, listing.  source_ok = FALSE
\* is get_or_create_source or its commit raising: run() raises to scrape_job.
\* listing_ok = FALSE is every listing page coming back empty from _fetch
\* (fetch_topics line 198): the list of topics is empty
RunStart(source_ok, listing_ok) ==
  /\ rpc = "idle"
  /\ UNCHANGED nonSyncVars
  /\ runs < MaxRuns
  /\ runs' = runs + 1
  /\ IF source_ok
     THEN /\ source_id' = IF source_id = 0 THEN 1 ELSE source_id
          /\ run_topics' = IF listing_ok THEN fetch_topics ELSE <<>>
          /\ rk' = 1
          /\ rpc' = "topics"
          /\ run_log' = <<>>
          /\ dirty' = ~listing_ok
          /\ UNCHANGED stable
     ELSE /\ stable' = 0
          /\ dirty' = TRUE
          /\ UNCHANGED <<source_id, run_topics, rk, rpc, run_log>>
  /\ UNCHANGED <<now, up_title, up_ver, up_atts, up_extra, up_bad_date, geo_mode,
                 att_ok, changes, db, seqs, files, admin_ops, faults, last_step,
                 last_end, prev_end, last_retry>>

\* run: the loop of line 147 is exhausted and run() returns
RunEnd ==
  /\ rpc = "topics"
  /\ UNCHANGED nonSyncVars
  /\ rk > Len(run_topics)
  /\ rpc' = "idle"
  /\ stable' = IF dirty THEN 0 ELSE IF stable < 2 THEN stable + 1 ELSE 2
  /\ prev_end' = last_end
  /\ last_end' = db
  /\ UNCHANGED <<now, up_title, up_ver, up_atts, up_extra, up_bad_date, geo_mode,
                 att_ok, changes, source_id, db, seqs, files, run_topics, rk,
                 runs, admin_ops, faults, run_log, last_step, dirty, last_retry>>

(***************************************************************************)
(* retry_post_attachments and the admin operations                          *)
(***************************************************************************)
\* attachments_for_post lines 140-146: the ids of a post's rows, ascending
RECURSIVE SortedIds(_)
SortedIds(ids) ==
  IF ids = {} THEN <<>>
  ELSE LET m == CHOOSE x \in ids : \A y \in ids : x <= y
       IN  <<m>> \o SortedIds(ids \ {m})

attachments_for_post(S, post_id) ==
  SortedIds({r.id : r \in {x \in S.db.attachments : x.post_id = post_id}})

\* retry_post_attachments lines 117-132: the rows of the post from the i-th
\* on; S.attempted collects the rows _download_attachment was called for
RECURSIVE RetryLoop(_, _, _, _, _)
RetryLoop(S, post_id, ids, i, force) ==
  IF i > Len(ids) THEN S
  ELSE
    LET att == CHOOSE r \in S.db.attachments : r.id = ids[i]
        rel_path == <<post_id, att.id, safe_file_name(att.file_name)>>
        result == DownloadResult(att.source_url)
        S1 == IF FileExists(S.files, rel_path) /\ ~force
              THEN [S EXCEPT !.db.attachments =
                      (@ \ {att}) \cup {[att EXCEPT !.local_rel_path = rel_path]}]
              ELSE IF result.ok
              THEN [S EXCEPT
                      !.attempted = @ \cup {att.id},
                      !.files = WriteFile(@, rel_path, att.source_url),
                      !.db.attachments =
                        (@ \ {att}) \cup
                        {[att EXCEPT !.local_rel_path = rel_path,
                                     !.mime_type = result.mime_type,
                                     !.size_bytes = result.size_bytes]}]
              ELSE [S EXCEPT !.attempted = @ \cup {att.id}]
    IN  RetryLoop(S1, post_id, ids, i + 1, force)

retry_post_attachments(S, post_id, force) ==
  RetryLoop([db |-> S.db, seqs |-> S.seqs, files |-> S.files, attempted |-> {}],
            post_id, attachments_for_post(S, post_id), 1, force)

\* soft_delete_post lines 211-218
soft_delete_post(S, post_id, t) ==
  [S EXCEPT !.db.posts =
     {IF r.id = post_id THEN [r EXCEPT !.is_deleted = TRUE, !.deleted_at = t]
      ELSE r : r \in @}]

\* the flag alone is cleared
restore_flag_only(S, post_id) ==
  [S EXCEPT !.db.posts =
     {IF r.id = post_id THEN [r EXCEPT !.is_deleted = FALSE] ELSE r : r \in @}]
\* restore_post lines 221-228
restore_post(S, post_id) ==
  [S EXCEPT !.db.posts =
     {IF r.id = post_id THEN [r EXCEPT !.is_deleted = FALSE, !.deleted_at = NullNum]
      ELSE r : r \in @}]

\* the coordinates alone, provider and geocode_updated_at left as they were
update_coordinates_only(S, topic_id, lat, lon, confidence, provider, t) ==
  [S EXCEPT !.db.topics =
     {IF r.id = topic_id
      THEN [r EXCEPT !.geocoded_lat = lat, !.geocoded_lon = lon,
                     !.geocode_confidence = confidence]
      ELSE r : r \in @}]
\* update_topic_coordinates lines 191-208
update_topic_coordinates(S, topic_id, lat, lon, confidence, provider, t) ==
  [S EXCEPT !.db.topics =
     {IF r.id = topic_id
      THEN [r EXCEPT !.geocoded_lat = lat, !.geocoded_lon = lon,
                     !.geocode_confidence = confidence,
                     !.geocode_provider = provider, !.geocode_updated_at = t]
      ELSE r : r \in @}]

Session == [db |-> db, seqs |-> seqs, files |-> files]

\* ids an admin request may name: the rows' ids and one id with no row
PostIds == {r.id : r \in db.posts} \cup {0}
TopicIds == {r.id : r \in db.topics} \cup {0}

AdminFrame ==
  /\ admin_ops < MaxAdminOps
  /\ UNCHANGED nonSyncVars
  /\ admin_ops' = admin_ops + 1
  /\ dirty' = TRUE
  /\ stable' = 0
  /\ UNCHANGED <<now, up_title, up_ver, up_atts, up_extra, up_bad_date, geo_mode,
                 att_ok, changes, source_id, seqs, rpc, run_topics, rk, runs,
                 faults, run_log, last_step, last_end, prev_end>>

\* admin.py delete_post lines 191-196
AdminDeletePost(post_id) ==
  /\ AdminFrame
  /\ db' = soft_delete_post(Session, post_id, now).db
  /\ UNCHANGED <<files, last_retry>>

\* admin.py restore_post_handler lines 200-205
AdminRestorePost(post_id) ==
  /\ AdminFrame
  /\ db' = restore_post(Session, post_id).db
  /\ UNCHANGED <<files, last_retry>>

\* admin.py update_topic_coords_handler lines 172-187
AdminUpdateCoords(topic_id, lat, lon) ==
  /\ AdminFrame
  /\ db' = update_topic_coordinates(Session, topic_id, lat, lon, 10, "manual", now).db
  /\ UNCHANGED <<files, last_retry>>

\* the rows of a post, and those of them whose local_rel_path names a file
\* of the directory
RowsOfPost(S, post_id) == {r \in S.db.attachments : r.post_id = post_id}
RowsWithFile(S, post_id) ==
  {r \in RowsOfPost(S, post_id) :
     r.local_rel_path # NullPath /\ FileExists(S.files, r.local_rel_path)}

\* admin.py retry_post_attachments_handler lines 160-168: the retry of the
\* post's rows (none for an id with no post) and the commit.  The handler
\* passes force=False (line 166); force = TRUE is retry_post_attachments
\* called with its other argument value
AdminRetryAttachments(post_id, force) ==
  /\ AdminFrame
  /\ \E S \in {retry_post_attachments(Session, post_id, force)} :
       /\ db' = S.db
       /\ files' = S.files
       /\ last_retry' = [post |-> post_id, force |-> force, ok |-> att_ok,
                         attempted |-> S.attempted,
                         before |-> RowsOfPost(Session, post_id),
                         had_file |-> {r.id : r \in RowsWithFile(Session, post_id)},
                         after |-> RowsOfPost(S, post_id)]

(***************************************************************************)
(* The clock and the upstream                                               *)
(***************************************************************************)
Tick ==
  /\ rpc = "idle"
  /\ UNCHANGED nonSyncVars
  /\ now < MaxClock
  /\ now' = now + 1
  /\ UNCHANGED <<up_title, up_ver, up_atts, up_extra, up_bad_date, geo_mode,
                 att_ok, changes, source_id, db, seqs, files, rpc, run_topics,
                 rk, runs, admin_ops, faults, run_log, last_step, stable, dirty,
                 last_end, prev_end, last_retry>>

UpstreamFrame ==
  /\ rpc = "idle"
  /\ UNCHANGED nonSyncVars
  /\ changes < MaxChanges
  /\ changes' = changes + 1
  /\ dirty' = TRUE
  /\ stable' = 0
  /\ UNCHANGED <<now, source_id, db, seqs, files, rpc, run_topics, rk, runs,
                 admin_ops, faults, run_log, last_step, last_end, prev_end,
                 last_retry>>

\* a moderator renames a thread
UpstreamRetitle(ext, title) ==
  /\ UpstreamFrame
  /\ title # up_title[ext]
  /\ up_title' = [up_title EXCEPT ![ext] = title]
  /\ UNCHANGED <<up_ver, up_atts, up_extra, up_bad_date, geo_mode, att_ok>>

\* the first post of topic 1 is edited, or its attachment list changes
UpstreamEditPost(ver, atts) ==
  /\ UpstreamFrame
  /\ <<ver, atts>> # <<up_ver, up_atts>>
  /\ up_ver' = ver
  /\ up_atts' = atts
  /\ UNCHANGED <<up_title, up_extra, up_bad_date, geo_mode, att_ok>>

\* a second post appears in topic 1
UpstreamNewPost ==
  /\ UpstreamFrame
  /\ ~up_extra
  /\ up_extra' = TRUE
  /\ UNCHANGED <<up_title, up_ver, up_atts, up_bad_date, geo_mode, att_ok>>

\* a topic page gets (or loses) a message whose timestamp is no date
UpstreamBadDate(ext) ==
  /\ UpstreamFrame
  /\ ext # up_bad_date
  /\ up_bad_date' = ext
  /\ UNCHANGED <<up_title, up_ver, up_atts, up_extra, geo_mode, att_ok>>

\* the geocoding API changes its behaviour
UpstreamGeocoder(mode) ==
  /\ UpstreamFrame
  /\ mode # geo_mode
  /\ geo_mode' = mode
  /\ UNCHANGED <<up_title, up_ver, up_atts, up_extra, up_bad_date, att_ok>>

\* the forum starts or stops serving attachment bytes
UpstreamAttachments ==
  /\ UpstreamFrame
  /\ att_ok' = ~att_ok
  /\ UNCHANGED <<up_title, up_ver, up_atts, up_extra, up_bad_date, geo_mode>>

(***************************************************************************)
(* SyncService._download_attachment, one call of it from run()              *)
(***************************************************************************)
\* `for attempt in range(2)`, line 79
Attempts == 2

\* what the GET of line 87 and the lines after it can come to: a 2xx response
\* whose bytes are written, a 401, a 403, a response whose final URL is the
\* login page, or an exception (transport error, raise_for_status, write)
Responses == {"ok", "401", "403", "login_url", "error"}

\* line 88: resp.status_code in {401, 403} or is_login_redirect_url(resp.url)
Unauthorized(resp) == resp \in {"401", "403", "login_url"}

\* lines 89 and 106: `if attempt == 0`
MayRefreshAlways(attempt) == TRUE
MayRefresh(attempt) == attempt = 0

\* `_ensure_forum_cookie(force_refresh)` lines 59-62 called with no other
\* caller inside ensure_cookie (forum_auth.py lines 121-134); `login` is what
\* `_login()` would return: the returned cookie and the cache afterwards
EnsureForumCookie(force, login) ==
  LET fresh == IF login_url = "" THEN "" ELSE login
  IN  IF SkipsLogin(has_credentials)
      THEN [cookie |-> fallback_cookie, cached |-> cached_cookie]
      ELSE IF ServeCache(cached_cookie, force)
      THEN [cookie |-> cached_cookie, cached |-> cached_cookie]
      ELSE [cookie |-> ReturnAfterLogin(cached_cookie, fresh, fallback_cookie),
            cached |-> CacheAfterLogin(cached_cookie, fresh)]

\* the path run() computes at line 170, and a path an earlier run stored
RelPath == <<1, 0, <<"f">>>>
OldPath == <<1, 1, <<"f">>>>

authRest == <<has_credentials, login_url, fallback_cookie, lock_holder,
              lock_waiters, apc, force_refresh, fresh_cookie, aret, seen_cache,
              did_login, arrived_during, succ_while_wait>>

\* lines 76-78: the call, made by run() line 175 when the file is absent
DownloadCall(login) ==
  /\ dpc = "idle"
  /\ d_calls < MaxDownloads
  /\ d_calls' = d_calls + 1
  /\ \E e \in {EnsureForumCookie(FALSE, login)} :
       /\ cached_cookie' = e.cached
       /\ d_cookie' = e.cookie
       /\ IF e.cookie = ""
          THEN dpc' = "returned" /\ d_result' = "none"
          ELSE dpc' = "get" /\ d_result' = "pending"
  /\ d_attempt' = 0
  /\ UNCHANGED <<d_gets, d_forced, d_resps, d_file, d_row_path, d_row_before>>
  /\ UNCHANGED <<authRest, nonAuthDlVars>>

\* lines 80-111: one pass of the loop body with the GET answered by `resp`
DownloadGet(resp, login) ==
  /\ dpc = "get"
  /\ d_gets' = d_gets + 1
  /\ d_resps' = Append(d_resps, resp)
  /\ IF Unauthorized(resp) \/ resp = "error"
     THEN IF MayRefresh(d_attempt)
          THEN \E e \in {EnsureForumCookie(TRUE, login)} :
                 /\ d_forced' = d_forced + 1
                 /\ cached_cookie' = e.cached
                 /\ d_cookie' = e.cookie
                 /\ IF e.cookie # "" /\ d_attempt + 1 < Attempts
                    THEN /\ dpc' = "get"
                         /\ d_attempt' = d_attempt + 1
                         /\ UNCHANGED d_result
                    ELSE /\ dpc' = "returned"
                         /\ d_result' = "none"
                         /\ UNCHANGED d_attempt
                 /\ UNCHANGED d_file
          ELSE /\ dpc' = "returned"
               /\ d_result' = "none"
               /\ UNCHANGED <<d_forced, cached_cookie, d_cookie, d_attempt, d_file>>
     ELSE /\ d_file' = TRUE
          /\ dpc' = "returned"
          /\ d_result' = "ok"
          /\ UNCHANGED <<d_forced, cached_cookie, d_cookie, d_attempt>>
  /\ UNCHANGED <<d_calls, d_row_path, d_row_before>>
  /\ UNCHANGED <<authRest, nonAuthDlVars>>

\* run lines 176-187: the row's local_rel_path after the call returned
DownloadStored ==
  /\ dpc = "returned"
  /\ dpc' = "stored"
  /\ d_row_path' = SetIfGiven(IF d_file THEN RelPath ELSE NullPath,
                              d_row_path, NullPath)
  /\ UNCHANGED <<d_calls, d_cookie, d_attempt, d_gets, d_forced, d_resps,
                 d_result, d_file, d_row_before>>
  /\ UNCHANGED nonDlVars

\* the loop of line 168 goes on to an attachment with no file, whose row is
\* new or has a null path (NullPath) or has a path stored by an earlier run
DownloadNext(row_path) ==
  /\ dpc = "stored"
  /\ d_calls < MaxDownloads
  /\ dpc' = "idle"
  /\ d_cookie' = ""
  /\ d_attempt' = 0
  /\ d_gets' = 0
  /\ d_forced' = 0
  /\ d_resps' = <<>>
  /\ d_result' = "pending"
  /\ d_file' = FALSE
  /\ d_row_path' = row_path
  /\ d_row_before' = row_path
  /\ UNCHANGED d_calls
  /\ UNCHANGED nonDlVars

InitDownload ==
  /\ dpc = "idle"
  /\ d_calls = 0
  /\ d_cookie = ""
  /\ d_attempt = 0
  /\ d_gets = 0
  /\ d_forced = 0
  /\ d_resps = <<>>
  /\ d_result = "pending"
  /\ d_file = FALSE
  /\ d_row_path = NullPath
  /\ d_row_before = NullPath

NextDl ==
  \/ \E login \in {""} \cup FreshCookies : DownloadCall(login)
  \/ \E resp \in Responses, login \in {""} \cup FreshCookies : DownloadGet(resp, login)
  \/ DownloadStored
  \/ \E row_path \in {NullPath, OldPath} : DownloadNext(row_path)

(***************************************************************************)
(* GoogleGeocoder.geocode and YandexGeocoder.geocode (geocoding.py)         *)
(***************************************************************************)
Providers == {"google", "yandex"}

\* client.get / raise_for_status: a 2xx answer, a connection error, a
\* timeout, or a non-2xx status
HttpOutcomes == {"2xx", "connect_error", "timeout", "non_2xx"}

\* the body of a 2xx answer: no JSON at all, JSON that is no object, an object
\* with no candidate (Google: status other than OK or empty results; Yandex:
\* no featureMember), an object with candidates, or an object whose best
\* candidate lacks its coordinates
Bodies == {"not_json", "not_object", "no_candidate", "candidates",
           "candidate_without_point"}

\* geocode lines 39-58 (Google) and 76-110 (Yandex): what one call comes to.
\* Neither method has a try: an exception of client.get, raise_for_status,
\* resp.json(), payload.get or of the subscripts leaves the method.
geocode(provider, key, http, body) ==
  IF ~key THEN "none"
  ELSE IF http # "2xx" THEN "raised"
  ELSE IF body \in {"not_json", "not_object"} THEN "raised"
  ELSE IF body = "no_candidate" THEN "none"
  ELSE IF body = "candidate_without_point" THEN "raised"
  ELSE "result"

\* one call of the configured provider's geocode
GeocodeCall ==
  /\ g_out = "pending"
  /\ g_out' = geocode(g_provider, g_key, g_http, g_body)
  /\ UNCHANGED <<g_provider, g_key, g_http, g_body>>
  /\ UNCHANGED nonGeoVars

\* the caller goes on to another place name, answered in another way
GeocodeNext(http, body) ==
  /\ g_out # "pending"
  /\ g_out' = "pending"
  /\ g_http' = http
  /\ g_body' = body
  /\ UNCHANGED <<g_provider, g_key>>
  /\ UNCHANGED nonGeoVars

InitGeoIdle ==
  /\ g_provider = geocoder_provider
  /\ g_key = FALSE
  /\ g_http = "2xx"
  /\ g_body = "candidates"
  /\ g_out = "pending"

\* the service is built with either provider, with or without a key; the
\* first call is answered well, GeocodeNext chooses the answers after it
InitGeo ==
  /\ g_provider \in Providers
  /\ g_key \in BOOLEAN
  /\ g_http = "2xx"
  /\ g_body = "candidates"
  /\ g_out = "pending"

NextGeo ==
  \/ GeocodeCall
  \/ \E http \in HttpOutcomes, body \in Bodies : GeocodeNext(http, body)

(***************************************************************************)
(* ForumScraper._fetch and _allowed_by_robots (forum_scraper.py)            *)
(***************************************************************************)
Fetchers == 1..NFetchers

\* `retries = 3`, line 88
Retries == 3

\* URLs by what the site's robots.txt says about them for this user agent
Urls == {"allowed", "disallowed"}

\* client.get and raise_for_status: a 2xx answer, another status, or an
\* exception of the transport
GetOutcomes == {"2xx", "non_2xx", "error"}

\* __init__ line 58: asyncio.Semaphore(max(1, max_concurrency))
Max1(n) == IF n < 1 THEN 1 ELSE n

\* asyncio.Semaphore.acquire returns without blocking
CanEnterAlways(p) == TRUE
CanEnter(p) == p > 0

\* what rp.read() of line 77 comes to (urllib.robotparser): the file is
\* fetched and parsed; urlopen raises something other than an HTTPError (no
\* route, timeout); the server answers 401 or 403 (read returns with
\* disallow_all set); another 4xx (allow_all set); a 5xx (read returns with
\* nothing parsed and last_checked still 0)
ReadOutcomes == {"parsed", "raised", "http_401_403", "http_4xx", "http_5xx"}

\* the parser object after a read that returned
ParserAfter(read) ==
  IF read = "parsed" THEN "loaded"
  ELSE IF read = "http_401_403" THEN "disallow_all"
  ELSE IF read = "http_4xx" THEN "allow_all"
  ELSE "unread"

\* RobotFileParser.can_fetch(user_agent, url), line 82: false with
\* disallow_all, true with allow_all, false while nothing was parsed
\* (last_checked = 0), else by the rules of the file
can_fetch(parser, url) ==
  IF parser = "disallow_all" THEN FALSE
  ELSE IF parser = "allow_all" THEN TRUE
  ELSE IF parser = "unread" THEN FALSE
  ELSE url # "disallowed"

\* line 97: `if attempt == retries`
LastAttemptNever(attempt) == FALSE
LastAttempt(attempt) == attempt = Retries

\* _allowed_by_robots lines 70-82, which holds no await: robots.txt is read
\* when no parser is cached, and the parser is cached only after a read that
\* did not raise.  policy is what the verdict was taken from.
AllowedByRobots(url, read) ==
  IF robot_parser = "none"
  THEN IF read = "raised"
       THEN [allowed |-> TRUE, policy |-> "raised", parser |-> "none",
             reads |-> 1]
       ELSE [allowed |-> can_fetch(ParserAfter(read), url),
             policy |-> ParserAfter(read), parser |-> ParserAfter(read),
             reads |-> 1]
  ELSE [allowed |-> can_fetch(robot_parser, url), policy |-> robot_parser,
        parser |-> robot_parser, reads |-> 0]

\* _fetch lines 85-89: the call up to the first `async with self.semaphore`
FetchCall(f, url, read) ==
  /\ fpc[f] = "idle"
  /\ f_calls < MaxFetches
  /\ f_calls' = f_calls + 1
  /\ f_url' = [f_url EXCEPT ![f] = url]
  /\ f_outcomes' = [f_outcomes EXCEPT ![f] = <<>>]
  /\ \E r \in {AllowedByRobots(url, read)} :
       /\ robot_parser' = r.parser
       /\ robots_reads' = robots_reads + r.reads
       /\ robots_failed' = (robots_failed \/ (r.reads = 1 /\ read # "parsed"))
       /\ f_robots' = [f_robots EXCEPT ![f] =
                         [allowed |-> r.allowed, policy |-> r.policy]]
       /\ IF ~r.allowed
          THEN /\ fpc' = [fpc EXCEPT ![f] = "done"]
               /\ f_result' = [f_result EXCEPT ![f] = ""]
               /\ f_attempt' = [f_attempt EXCEPT ![f] = 0]
          ELSE /\ fpc' = [fpc EXCEPT ![f] = "acquire"]
               /\ f_result' = [f_result EXCEPT ![f] = "pending"]
               /\ f_attempt' = [f_attempt EXCEPT ![f] = 1]
  /\ UNCHANGED <<max_concurrency, permits, undelayed>>
  /\ UNCHANGED nonFetchVars

\* lines 91-92: the semaphore is entered and the GET is sent
FetchAcquire(f) ==
  /\ fpc[f] = "acquire"
  /\ CanEnter(permits)
  /\ permits' = permits - 1
  /\ fpc' = [fpc EXCEPT ![f] = "get"]
  /\ UNCHANGED <<max_concurrency, robot_parser, f_url, f_attempt, f_result,
                 f_calls, f_outcomes, f_robots, robots_reads, robots_failed,
                 undelayed>>
  /\ UNCHANGED nonFetchVars

\* lines 92-100: the GET is answered.  A 2xx answer goes on to the rate-limit
\* sleep inside the semaphore; anything else raises out of the `async with`
\* (the permit is released) into the except clause
FetchGet(f, outcome) ==
  /\ fpc[f] = "get"
  /\ f_outcomes' = [f_outcomes EXCEPT ![f] = Append(@, outcome)]
  /\ undelayed' = [undelayed EXCEPT ![f] = TRUE]
  /\ IF outcome = "2xx"
     THEN /\ fpc' = [fpc EXCEPT ![f] = "rate_sleep"]
          /\ UNCHANGED <<permits, f_result>>
     ELSE /\ permits' = permits + 1
          /\ IF LastAttempt(f_attempt[f])
             THEN /\ fpc' = [fpc EXCEPT ![f] = "done"]
                  /\ f_result' = [f_result EXCEPT ![f] = ""]
             ELSE /\ fpc' = [fpc EXCEPT ![f] = "backoff"]
                  /\ UNCHANGED f_result
  /\ UNCHANGED <<max_concurrency, robot_parser, f_url, f_attempt, f_calls,
                 f_robots, robots_reads, robots_failed>>
  /\ UNCHANGED nonFetchVars

\* lines 94-95: asyncio.sleep(self.sleep_seconds) is over; return response.text
FetchRateSlept(f) ==
  /\ fpc[f] = "rate_sleep"
  /\ permits' = permits + 1
  /\ fpc' = [fpc EXCEPT ![f] = "done"]
  /\ f_result' = [f_result EXCEPT ![f] = "body"]
  /\ undelayed' = [undelayed EXCEPT ![f] = FALSE]
  /\ UNCHANGED <<max_concurrency, robot_parser, f_url, f_attempt, f_calls,
                 f_outcomes, f_robots, robots_reads, robots_failed>>
  /\ UNCHANGED nonFetchVars

\* line 100: asyncio.sleep(attempt * 1.0) is over; the loop's next attempt
FetchBackoffSlept(f) ==
  /\ fpc[f] = "backoff"
  /\ f_attempt' = [f_attempt EXCEPT ![f] = @ + 1]
  /\ fpc' = [fpc EXCEPT ![f] = "acquire"]
  /\ undelayed' = [undelayed EXCEPT ![f] = FALSE]
  /\ UNCHANGED <<max_concurrency, permits, robot_parser, f_url, f_result,
                 f_calls, f_outcomes, f_robots, robots_reads, robots_failed>>
  /\ UNCHANGED nonFetchVars

\* the caller has the returned body
FetchReturn(f) ==
  /\ fpc[f] = "done"
  /\ fpc' = [fpc EXCEPT ![f] = "idle"]
  /\ UNCHANGED <<max_concurrency, permits, robot_parser, f_url, f_attempt,
                 f_result, f_calls, f_outcomes, f_robots, robots_reads,
                 robots_failed, undelayed>>
  /\ UNCHANGED nonFetchVars

\* ForumScraper.__init__ lines 54-62 with max_concurrency = mc
InitScraper(mc) ==
  /\ max_concurrency = mc
  /\ permits = Max1(mc)
  /\ robot_parser = "none"
  /\ fpc = [f \in Fetchers |-> "idle"]
  /\ f_url = [f \in Fetchers |-> "allowed"]
  /\ f_attempt = [f \in Fetchers |-> 0]
  /\ f_result = [f \in Fetchers |-> "pending"]
  /\ f_calls = 0
  /\ f_outcomes = [f \in Fetchers |-> <<>>]
  /\ f_robots = [f \in Fetchers |-> [allowed |-> TRUE, policy |-> "none"]]
  /\ robots_reads = 0
  /\ robots_failed = FALSE
  /\ undelayed = [f \in Fetchers |-> FALSE]

InitFetchIdle == InitScraper(MaxConcurrencySetting)

InitFetch == \E mc \in 0..MaxConcurrencySetting : InitScraper(mc)

NextFetch ==
  \/ \E f \in Fetchers, url \in Urls, read \in ReadOutcomes :
       FetchCall(f, url, read)
  \/ \E f \in Fetchers : FetchAcquire(f)
  \/ \E f \in Fetchers, outcome \in GetOutcomes : FetchGet(f, outcome)
  \/ \E f \in Fetchers : FetchRateSlept(f)
  \/ \E f \in Fetchers : FetchBackoffSlept(f)
  \/ \E f \in Fetchers : FetchReturn(f)

(***************************************************************************)
(* repository.py: the queries and the admin writes, called on a store       *)
(***************************************************************************)
\* ids a call may name: the rows of the seeded store and one id with no row
RepoIds == {1, 2, 3}

\* get_post line 176, get_topic line 180: the row with the id, if any
get_post(S, post_id) == {r \in S.db.posts : r.id = post_id}
get_topic(S, topic_id) == {r \in S.db.topics : r.id = topic_id}

\* select(Post).join(Post.topic).options(joinedload(Post.topic)): each post
\* with the row of its topic
JoinedPosts(S) ==
  {[post |-> r, topic |-> CHOOSE t \in S.db.topics : t.id = r.topic_id] :
     r \in {x \in S.db.posts : \E t \in S.db.topics : t.id = x.topic_id}}

\* order_by(Post.posted_at_utc.desc()); rows with equal times come in the
\* order of their ids here (the database is free in that)
RECURSIVE OrderByPostedDesc(_)
OrderByPostedDesc(rows) ==
  IF rows = {} THEN <<>>
  ELSE LET m == CHOOSE x \in rows : \A y \in rows :
                  \/ x.post.posted_at_utc > y.post.posted_at_utc
                  \/ /\ x.post.posted_at_utc = y.post.posted_at_utc
                     /\ x.post.id <= y.post.id
       IN  <<m>> \o OrderByPostedDesc(rows \ {m})

\* stmt.limit(limit)
Limit(rows, limit) ==
  SubSeq(rows, 1, IF limit < Len(rows) THEN limit ELSE Len(rows))

\* list_posts line 166: the condition added when include_deleted is false
ShowsDeletedAlways(post, include_deleted) == TRUE
ShowsDeleted(post, include_deleted) == include_deleted \/ ~post.is_deleted

\* list_posts lines 149-172 with since and q not given and offset 0
list_posts(S, has_geo, include_deleted, limit) ==
  Limit(OrderByPostedDesc(
          {j \in JoinedPosts(S) :
             /\ has_geo => (j.topic.geocoded_lat # NullNum
                            /\ j.topic.geocoded_lon # NullNum)
             /\ ShowsDeleted(j.post, include_deleted)}),
        limit)

\* func.coalesce(Topic.geocode_confidence, 0.0), line 238
CoalesceNothing(x, default) == x
Coalesce(x, default) == IF x = NullNum THEN default ELSE x

\* the limits a map request gives, and min_geo_confidence in tenths: 0 and
\* the configured 0.4
MapLimits == {1, 2, 100}
MinConfidences == {0, 4}

\* posts_for_map lines 231-246 with since and q not given
posts_for_map(S, limit, min_geo_confidence) ==
  Limit(OrderByPostedDesc(
          {j \in JoinedPosts(S) :
             /\ ~j.post.is_deleted
             /\ j.topic.geocoded_lat # NullNum
             /\ j.topic.geocoded_lon # NullNum
             /\ Coalesce(j.topic.geocode_confidence, 0) >= min_geo_confidence}),
        limit)

\* the ids of the posts of a query result
IdsOf(rows) == {rows[i].post.id : i \in 1..Len(rows)}

\* what a call leaves alone: everything of the store but its rows
storeRest == <<now, up_title, up_ver, up_atts, up_extra, up_bad_date, geo_mode,
               att_ok, changes, source_id, seqs, files, rpc, run_topics, rk,
               runs, admin_ops, faults, run_log, last_step, last_retry, dirty,
               stable, last_end, prev_end>>

NoCoords == [lat |-> NullNum, lon |-> NullNum, confidence |-> NullNum]

\* the entry a call leaves in the log
RepoEntry(fn, id, args, ret, after) ==
  [fn |-> fn, id |-> id, args |-> args, ret |-> ret, at |-> now,
   before |-> db, after |-> after]

\* soft_delete_post lines 211-218: False when get_post finds no row
RepoSoftDelete(post_id) ==
  /\ Len(r_log) < MaxRepoOps
  /\ db' = soft_delete_post(Session, post_id, now).db
  /\ r_log' = Append(r_log, RepoEntry("soft_delete_post", post_id, NoCoords,
                                      get_post(Session, post_id) # {}, db'))
  /\ UNCHANGED storeRest
  /\ UNCHANGED nonSyncRepoVars

\* restore_post lines 221-228
RepoRestore(post_id) ==
  /\ Len(r_log) < MaxRepoOps
  /\ db' = restore_post(Session, post_id).db
  /\ r_log' = Append(r_log, RepoEntry("restore_post", post_id, NoCoords,
                                      get_post(Session, post_id) # {}, db'))
  /\ UNCHANGED storeRest
  /\ UNCHANGED nonSyncRepoVars

\* update_topic_coordinates lines 191-208
RepoUpdateCoords(topic_id, lat, lon, confidence, provider) ==
  /\ Len(r_log) < MaxRepoOps
  /\ db' = update_topic_coordinates(Session, topic_id, lat, lon, confidence,
                                    provider, now).db
  /\ r_log' = Append(r_log, RepoEntry("update_topic_coordinates", topic_id,
                                      [lat |-> lat, lon |-> lon,
                                       confidence |-> confidence,
                                       provider |-> provider],
                                      get_topic(Session, topic_id) # {}, db'))
  /\ UNCHANGED storeRest
  /\ UNCHANGED nonSyncRepoVars

\* upsert_post lines 42-69 for a post scraped under a topic: the row is
\* refreshed, or created with the next id of the sequence
RepoUpsertPost(topic_id, external_id, ver) ==
  /\ Len(r_log) < MaxRepoOps
  /\ \E up \in {upsert_post(Session, topic_id,
                             ScrapedPost(topic_id, external_id, ver, <<>>))} :
       /\ db' = up.S.db
       /\ seqs' = up.S.seqs
       /\ r_log' = Append(r_log, RepoEntry("upsert_post", up.id, NoCoords,
                                           TRUE, db'))
  /\ UNCHANGED <<now, up_title, up_ver, up_atts, up_extra, up_bad_date,
                 geo_mode, att_ok, changes, source_id, files, rpc, run_topics,
                 rk, runs, admin_ops, faults, run_log, last_step, last_retry,
                 dirty, stable, last_end, prev_end>>
  /\ UNCHANGED nonSyncRepoVars

\* posts_for_map lines 231-246: a query, the rows are left as they are
RepoPostsForMap(limit, min_geo_confidence) ==
  /\ Len(r_log) < MaxRepoOps
  /\ r_log' = Append(r_log, RepoEntry("posts_for_map", 0,
                                      [limit |-> limit,
                                       min_geo_confidence |-> min_geo_confidence],
                                      posts_for_map(Session, limit,
                                                    min_geo_confidence), db))
  /\ UNCHANGED db
  /\ UNCHANGED storeRest
  /\ UNCHANGED nonSyncRepoVars

\* rows as upsert_topic and upsert_post create them, with the geocode an
\* earlier run or an admin stored and the flag an admin set
SeedGeo ==
  {NoGeoFields}
    \cup {[lat |-> 5, lon |-> 6, provider |-> "yandex", confidence |-> c,
           updated_at |-> 0] : c \in {3, 5}}
    \cup {[lat |-> 5, lon |-> 6, provider |-> "manual", confidence |-> NullNum,
           updated_at |-> 0]}

SeedTopic(id, geo) ==
  [id |-> id, source_id |-> 1, external_id |-> id, title |-> <<"T">>,
   url |-> <<"threads", <<"T">>, id>>, place_name |-> <<"T">>,
   geocoded_lat |-> geo.lat, geocoded_lon |-> geo.lon,
   geocode_provider |-> geo.provider, geocode_confidence |-> geo.confidence,
   geocode_updated_at |-> geo.updated_at, last_seen_at |-> 0]

SeedPost(id, topic_id, deleted) ==
  [id |-> id, topic_id |-> topic_id, external_id |-> id,
   author |-> <<"user", 1>>, posted_at_utc |-> id,
   content_text |-> <<"text", 1>>, url |-> <<"posts", id>>,
   is_deleted |-> deleted, deleted_at |-> IF deleted THEN 0 ELSE NullNum]

InitSeededStore ==
  /\ now = 1
  /\ seqs = [topic |-> 3, post |-> 3, attachment |-> 1]
  /\ \E g1 \in SeedGeo, g2 \in SeedGeo, d1 \in BOOLEAN, d2 \in BOOLEAN :
       db = [topics |-> {SeedTopic(1, g1), SeedTopic(2, g2)},
             posts |-> {SeedPost(1, 1, d1), SeedPost(2, 2, d2)},
             attachments |-> {}]

InitRepoIdle == r_log = <<>>

NextRepo ==
  \/ \E p \in RepoIds : RepoSoftDelete(p)
  \/ \E p \in RepoIds : RepoRestore(p)
  \/ \E t \in RepoIds, lat \in {7}, lon \in {8}, c \in {NullNum, 9},
        provider \in {"manual", "nominatim"} :
       RepoUpdateCoords(t, lat, lon, c, provider)
  \/ \E limit \in MapLimits, m \in MinConfidences : RepoPostsForMap(limit, m)
  \/ \E t \in {1, 2}, ext \in {1, 3} : RepoUpsertPost(t, ext, 2)

(***************************************************************************)
(* ForumScraper.title_to_place_name on titles (forum_scraper.py)            *)
(***************************************************************************)
\* the characters of a title: the two kinds of whitespace and two letters
TitleChars == Whitespace \cup {"A", "B"}
Titles == UNION {[1..n -> TitleChars] : n \in 0..MaxTitleLen}

\* title_to_place_name lines 181-183 called on the title
PlaceNameCall ==
  /\ tpc = "title"
  /\ t_place' = title_to_place_name(t_title)
  /\ tpc' = "place"
  /\ UNCHANGED <<t_title, t_again>>
  /\ UNCHANGED nonTextVars

\* title_to_place_name lines 181-183 called on what it returned
PlaceNameAgain ==
  /\ tpc = "place"
  /\ t_again' = title_to_place_name(t_place)
  /\ tpc' = "again"
  /\ UNCHANGED <<t_title, t_place>>
  /\ UNCHANGED nonTextVars

InitTextIdle ==
  /\ tpc = "off"
  /\ t_title = <<>>
  /\ t_place = <<>>
  /\ t_again = <<>>

InitText ==
  /\ tpc = "title"
  /\ t_title \in Titles
  /\ t_place = <<>>
  /\ t_again = <<>>

NextText ==
  \/ PlaceNameCall
  \/ PlaceNameAgain

(***************************************************************************)
(* The application: startup and the interval job (main.py)                  *)
(***************************************************************************)
\* invocations of sync_service.run in progress: scrape_job lines 28-36 awaits
\* run(), in the startup task and in every instance of the interval job
RunsInProgress == (IF s_startup = "running" THEN 1 ELSE 0) + s_instances

\* the scheduler starts an instance of a job unless max_instances of it are
\* executing; it knows of the instances it started itself
SchedulerMayStart == s_instances < MaxInstances

\* startup_event lines 39-43: add_job, scheduler.start and
\* asyncio.create_task(scrape_job())
StartupEvent ==
  /\ spc = "down"
  /\ spc' = "up"
  /\ s_startup' = "running"
  /\ UNCHANGED <<s_instances, s_ticks, s_skipped, s_finished>>
  /\ UNCHANGED nonSchedVars

\* the startup task's scrape_job returns (lines 28-36)
StartupRunReturns ==
  /\ s_startup = "running"
  /\ s_startup' = "done"
  /\ s_finished' = s_finished + 1
  /\ UNCHANGED <<spc, s_instances, s_ticks, s_skipped>>
  /\ UNCHANGED nonSchedVars

\* the interval of job scrape_forum (line 41) elapses
IntervalTick ==
  /\ spc = "up"
  /\ s_ticks < MaxTicks
  /\ s_ticks' = s_ticks + 1
  /\ IF SchedulerMayStart
     THEN /\ s_instances' = s_instances + 1
          /\ UNCHANGED s_skipped
     ELSE /\ s_skipped' = s_skipped + 1
          /\ UNCHANGED s_instances
  /\ UNCHANGED <<spc, s_startup, s_finished>>
  /\ UNCHANGED nonSchedVars

\* an instance of the interval job returns (lines 28-36)
ScheduledRunReturns ==
  /\ s_instances > 0
  /\ s_instances' = s_instances - 1
  /\ s_finished' = s_finished + 1
  /\ UNCHANGED <<spc, s_startup, s_ticks, s_skipped>>
  /\ UNCHANGED nonSchedVars

\* module level, lines 24-25: scheduler and service made, nothing started
InitSchedIdle ==
  /\ spc = "down"
  /\ s_startup = "none"
  /\ s_instances = 0
  /\ s_ticks = 0
  /\ s_skipped = 0
  /\ s_finished = 0

NextSched ==
  \/ StartupEvent
  \/ StartupRunReturns
  \/ IntervalTick
  \/ ScheduledRunReturns

(***************************************************************************)
(* ForumScraper.fetch_topics on listing pages (forum_scraper.py)            *)
(***************************************************************************)
\* a link of a listing page: to a thread (external id, text) or elsewhere
ThreadLink(ext, text) == [kind |-> "thread", ext |-> ext, text |-> text]
OtherLink == [kind |-> "other", ext |-> 0, text |-> <<"C">>]

\* a listing page: _fetch returned "" for it, or html with these links
FailedPage == [ok |-> FALSE, links |-> <<>>]
Page(links) == [ok |-> TRUE, links |-> links]
ListingPages ==
  {FailedPage,
   Page(<<>>),
   Page(<<ThreadLink(1, <<"A">>)>>),
   Page(<<ThreadLink(2, <<" ", "B">>)>>),
   Page(<<ThreadLink(1, <<"A">>), ThreadLink(2, <<"A">>)>>),
   Page(<<ThreadLink(2, <<"B", "\t", " ", "A">>), ThreadLink(1, <<"B">>)>>),
   Page(<<OtherLink, ThreadLink(1, <<"B">>)>>),
   Page(<<ThreadLink(1, <<"A">>), ThreadLink(1, <<"B">>)>>)}

\* fetch_topics lines 206-214: the stub built from one thread link
LinkTopic(link) ==
  LET title == clean_text(link.text)
  IN  [external_id |-> link.ext,
       title       |-> title,
       url         |-> <<"threads", title, link.ext>>,
       place_name  |-> title_to_place_name(title)]

\* d[key] = value that also moves the key to the end of the dict
DictSetMovingToEnd(d, key, value) ==
  SelectSeq(d, LAMBDA it : it.key # key) \o <<[key |-> key, value |-> value]>>
\* d[key] = value on a dict: a key it has keeps its place and gets the value,
\* a new key goes to the end
DictSet(d, key, value) ==
  IF \E i \in 1..Len(d) : d[i].key = key
  THEN [i \in 1..Len(d) |->
          IF d[i].key = key THEN [key |-> key, value |-> value] ELSE d[i]]
  ELSE Append(d, [key |-> key, value |-> value])

\* fetch_topics lines 200-215: the loop over the links of one page
RECURSIVE LinkLoop(_, _)
LinkLoop(d, links) ==
  IF links = <<>> THEN d
  ELSE LET link == Head(links)
       IN  IF link.kind # "thread"
           THEN LinkLoop(d, Tail(links))
           ELSE LinkLoop(DictSet(d, link.ext, LinkTopic(link)), Tail(links))

\* list(topics.values())
DictValues(d) == [i \in 1..Len(d) |-> d[i].value]

\* fetch_topics lines 195-215: one iteration of the loop over pages
ListingPage ==
  /\ lpc = "pages"
  /\ l_page <= MaxForumPages
  /\ l_requested' = Append(l_requested, l_page)
  /\ l_topics' = IF ~l_pages[l_page].ok THEN l_topics
                 ELSE LinkLoop(l_topics, l_pages[l_page].links)
  /\ l_page' = l_page + 1
  /\ UNCHANGED <<lpc, l_pages, l_result>>
  /\ UNCHANGED nonListingVars

\* fetch_topics line 216
ListingReturn ==
  /\ lpc = "pages"
  /\ l_page > MaxForumPages
  /\ l_result' = DictValues(l_topics)
  /\ lpc' = "done"
  /\ UNCHANGED <<l_pages, l_page, l_topics, l_requested>>
  /\ UNCHANGED nonListingVars

InitListingIdle ==
  /\ lpc = "off"
  /\ l_pages = <<>>
  /\ l_page = 1
  /\ l_topics = <<>>
  /\ l_requested = <<>>
  /\ l_result = <<>>

\* fetch_topics lines 193-195 on any listing
InitListing ==
  /\ lpc = "pages"
  /\ l_pages \in [1..MaxForumPages -> ListingPages]
  /\ l_page = 1
  /\ l_topics = <<>>
  /\ l_requested = <<>>
  /\ l_result = <<>>

NextListing ==
  \/ ListingPage
  \/ ListingReturn

(***************************************************************************)
(* ForumScraper.fetch_topic_posts on a topic's pages (forum_scraper.py)     *)
(***************************************************************************)
\* the topic's first page as _topic_last_page gets it: "" from _fetch, or
\* html whose links to /page-N carry these numbers
FailedFirst == [ok |-> FALSE, links |-> <<>>]
FirstPage(links) == [ok |-> TRUE, links |-> links]
FirstPages ==
  {FailedFirst, FirstPage(<<>>), FirstPage(<<0>>), FirstPage(<<2>>),
   FirstPage(<<3, 2>>), FirstPage(<<2, 5, 3>>)}

\* max(pages) of a list that starts with m
RECURSIVE MaxOf(_, _)
MaxOf(m, pages) ==
  IF pages = <<>> THEN m
  ELSE MaxOf(IF Head(pages) > m THEN Head(pages) ELSE m, Tail(pages))

\* _topic_last_page lines 218-229
topic_last_page(first) == IF ~first.ok THEN 1 ELSE MaxOf(1, first.links)

\* every call starts at the topic's first page
StartPageAlwaysFirst(last_page, max_topic_pages) == 1
\* fetch_topic_posts line 235
StartPage(last_page, max_topic_pages) == Max1(last_page - max_topic_pages + 1)

\* a message block: the id extract_post_external_id finds (NullNum for "")
\* and the value of its time tag: "none", one that parses, one that does not
Block(id, time) == [id |-> id, time |-> time]
FailedPostsPage == [ok |-> FALSE, blocks |-> <<>>]
PostsPage(blocks) == [ok |-> TRUE, blocks |-> blocks]
PostsPages ==
  {FailedPostsPage,
   PostsPage(<<Block(7, "t1")>>),
   PostsPage(<<Block(NullNum, "t1"), Block(8, "t2")>>),
   PostsPage(<<Block(7, "none"), Block(8, "t1")>>),
   PostsPage(<<Block(7, "t2"), Block(7, "none")>>),
   PostsPage(<<Block(8, "bad"), Block(7, "t1")>>),
   PostsPage(<<Block(NullNum, "bad"), Block(7, "t1")>>)}

\* parse_datetime_to_utc lines 186-190: date_parser.parse raises on a value
\* that is no date
Parses(time) == time \in {"t1", "t2"}
parse_datetime_to_utc(time) == IF time = "t1" THEN 1 ELSE 2

\* only a block without an id is passed over
SkipsBlockWithoutId(block) == block.id = NullNum
\* fetch_topic_posts lines 244-245 and 252-253: the two continue statements
SkipsBlock(block) == block.id = NullNum \/ block.time = "none"

\* fetch_topic_posts lines 242-268: the loop over the blocks of one page
RECURSIVE BlockLoop(_, _)
BlockLoop(d, blocks) ==
  IF blocks = <<>> THEN [posts |-> d, raised |-> FALSE]
  ELSE LET block == Head(blocks)
       IN  IF SkipsBlock(block) THEN BlockLoop(d, Tail(blocks))
           ELSE IF ~Parses(block.time) THEN [posts |-> d, raised |-> TRUE]
           ELSE BlockLoop(
                  DictSet(d, block.id,
                          ScrapedPost(1, block.id,
                                      parse_datetime_to_utc(block.time), <<>>)),
                  Tail(blocks))

\* fetch_topic_posts lines 234-236: _topic_last_page and the page window
PostsProbe ==
  /\ ppc = "probe"
  /\ p_last' = topic_last_page(p_first)
  /\ p_page' = StartPage(topic_last_page(p_first), p_max)
  /\ ppc' = "pages"
  /\ UNCHANGED <<p_max, p_first, p_requested, p_fetched, p_posts, p_result>>
  /\ UNCHANGED nonPostsVars

\* fetch_topic_posts lines 236-268: one iteration of the loop over pages,
\* _fetch returning the page got
PostsPageStep(got) ==
  /\ ppc = "pages"
  /\ p_page <= p_last
  /\ p_requested' = Append(p_requested, p_page)
  /\ p_fetched' = Append(p_fetched, got)
  /\ \E r \in {IF got.ok THEN BlockLoop(p_posts, got.blocks)
               ELSE [posts |-> p_posts, raised |-> FALSE]} :
       /\ p_posts' = r.posts
       /\ ppc' = IF r.raised THEN "raised" ELSE "pages"
  /\ p_page' = p_page + 1
  /\ UNCHANGED <<p_max, p_first, p_last, p_result>>
  /\ UNCHANGED nonPostsVars

\* fetch_topic_posts line 269
PostsReturn ==
  /\ ppc = "pages"
  /\ p_page > p_last
  /\ p_result' = DictValues(p_posts)
  /\ ppc' = "done"
  /\ UNCHANGED <<p_max, p_first, p_last, p_page, p_requested, p_fetched,
                 p_posts>>
  /\ UNCHANGED nonPostsVars

InitPostsIdle ==
  /\ ppc = "off"
  /\ p_max = 1
  /\ p_first = FailedFirst
  /\ p_last = 1
  /\ p_page = 1
  /\ p_requested = <<>>
  /\ p_fetched = <<>>
  /\ p_posts = <<>>
  /\ p_result = <<>>

\* fetch_topic_posts lines 231-233 on any topic, by any scraper
InitPosts ==
  /\ ppc = "probe"
  /\ p_max \in 1..MaxTopicPages
  /\ p_first \in FirstPages
  /\ p_last = 1
  /\ p_page = 1
  /\ p_requested = <<>>
  /\ p_fetched = <<>>
  /\ p_posts = <<>>
  /\ p_result = <<>>

NextPosts ==
  \/ PostsProbe
  \/ \E got \in PostsPages : PostsPageStep(got)
  \/ PostsReturn

(***************************************************************************)
(* The providers' choice among candidates (geocoding.py)                    *)
(***************************************************************************)
\* location_type (Google) and precision (Yandex) of a candidate: values of
\* the table, the key absent ("missing"), a value the table does not have
CandidateTiers(provider) ==
  IF provider = "google"
  THEN {"ROOFTOP", "GEOMETRIC_CENTER", "APPROXIMATE", "missing", "unknown"}
  ELSE {"exact", "street", "other", "missing", "unknown"}

\* LOCATION_TYPE_SCORE lines 28-33 and PRECISION_SCORE lines 64-70, in tenths;
\* 0 stands for a key the table does not have
Score(provider, tier) ==
  IF provider = "google"
  THEN CASE tier = "ROOFTOP" -> 10
         [] tier = "RANGE_INTERPOLATED" -> 8
         [] tier = "GEOMETRIC_CENTER" -> 6
         [] tier = "APPROXIMATE" -> 4
         [] OTHER -> 0
  ELSE CASE tier = "exact" -> 10
         [] tier = "number" -> 9
         [] tier = "near" -> 8
         [] tier = "street" -> 6
         [] tier = "other" -> 4
         [] OTHER -> 0

\* x.get(..., "APPROXIMATE") line 53 and .get("precision", "other") line 99
TierOrDefault(provider, tier) ==
  IF tier # "missing" THEN tier
  ELSE IF provider = "google" THEN "APPROXIMATE" ELSE "other"

\* the sort key: line 53 (default 0.1) and lines 94-101 (default 0.3)
SortKey(provider, tier) ==
  LET v == Score(provider, TierOrDefault(provider, tier))
  IN  IF v # 0 THEN v ELSE IF provider = "google" THEN 1 ELSE 3

\* the confidence is the sort key
ConfidenceFromSortKey(provider, tier) == SortKey(provider, tier)
\* the confidence of the result: line 57 and lines 108-109 (default 0.4)
Confidence(provider, tier) ==
  LET v == Score(provider, TierOrDefault(provider, tier))
  IN  IF v # 0 THEN v ELSE 4

\* a later candidate goes ahead of the ones of equal key
StaysAheadOnlyIfGreater(key, new_key) == key > new_key
\* sorted(..., reverse=True) is stable: a candidate stays ahead of a later one
\* unless the later one's key is greater
StaysAhead(key, new_key) == key >= new_key

\* sorted(candidates, key=..., reverse=True), lines 51-55 and 105
RECURSIVE SortedByKeyDesc(_, _)
SortedByKeyDesc(provider, cands) ==
  IF cands = <<>> THEN <<>>
  ELSE LET n == Len(cands)
           new == cands[n]
           before == SortedByKeyDesc(provider, SubSeq(cands, 1, n - 1))
           ahead == {i \in 1..Len(before) :
                       StaysAhead(SortKey(provider, before[i].tier),
                                  SortKey(provider, new.tier))}
           k == Cardinality(ahead)
       IN  SubSeq(before, 1, k) \o <<new>> \o SubSeq(before, k + 1, Len(before))

\* lines 51-58 and 105-110: best is the first of the sorted candidates
BestCandidate(provider, cands) ==
  LET best == SortedByKeyDesc(provider, cands)[1]
  IN  [pos |-> best.pos, confidence |-> Confidence(provider, best.tier)]

\* geocode on a payload with candidates returns
ChooseCandidate ==
  /\ cpc = "answer"
  /\ c_best' = BestCandidate(c_provider, c_cands)
  /\ cpc' = "done"
  /\ UNCHANGED <<c_provider, c_cands>>
  /\ UNCHANGED nonCandVars

\* the caller asks for another place: a payload with one candidate arrives
NextAnswer(tier) ==
  /\ cpc = "done"
  /\ tier \in CandidateTiers(c_provider)
  /\ c_cands' = <<[tier |-> tier, pos |-> 1]>>
  /\ cpc' = "answer"
  /\ UNCHANGED <<c_provider, c_best>>
  /\ UNCHANGED nonCandVars

InitCandIdle ==
  /\ cpc = "off"
  /\ c_provider = geocoder_provider
  /\ c_cands = <<>>
  /\ c_best = [pos |-> 0, confidence |-> 0]

\* either provider, with a payload of 1..MaxCandidates candidates
InitCand ==
  /\ cpc = "answer"
  /\ c_provider \in Providers
  /\ \E n \in 1..MaxCandidates :
       \E tiers \in [1..n -> CandidateTiers(c_provider)] :
         c_cands = [i \in 1..n |-> [tier |-> tiers[i], pos |-> i]]
  /\ c_best = [pos |-> 0, confidence |-> 0]

NextCand ==
  \/ ChooseCandidate
  \/ \E tier \in CandidateTiers("google") \cup CandidateTiers("yandex") :
       NextAnswer(tier)

(***************************************************************************)
(* ForumAuthService._extract_form_payload on a login page (forum_auth.py)   *)
(***************************************************************************)
\* a form: its action has 'login/login' in it or not, and it has an input
\* named login and one named password or not
LoginForms == [marker : BOOLEAN, inputs : BOOLEAN]

\* the first position of forms that satisfies Test, 0 if none does
FirstForm(forms, Test(_)) ==
  IF \E i \in 1..Len(forms) : Test(forms[i])
  THEN CHOOSE i \in 1..Len(forms) :
         /\ Test(forms[i])
         /\ \A j \in 1..(i - 1) : ~Test(forms[j])
  ELSE 0

\* _extract_form_payload lines 50-58: select_one on the action first, the
\* loop over the forms only when that found nothing
SelectForm(forms) ==
  LET by_action == FirstForm(forms, LAMBDA f : f.marker)
  IN  IF by_action # 0 THEN by_action
      ELSE FirstForm(forms, LAMBDA f : f.inputs)

\* _login line 98: _extract_form_payload on the page
ExtractFormPayload ==
  /\ mpc = "page"
  /\ m_form' = SelectForm(m_forms)
  /\ mpc' = "form"
  /\ UNCHANGED <<m_forms, m_posted>>
  /\ UNCHANGED nonFormVars

\* _login lines 99-109: return "" without a form, else POST it
LoginSubmit ==
  /\ mpc = "form"
  /\ m_posted' = (m_form # 0)
  /\ mpc' = "done"
  /\ UNCHANGED <<m_forms, m_form>>
  /\ UNCHANGED nonFormVars

InitFormIdle ==
  /\ mpc = "off"
  /\ m_forms = <<>>
  /\ m_form = 0
  /\ m_posted = FALSE

\* the GET of the login page answered with any page of up to MaxForms forms
InitForm ==
  /\ mpc = "page"
  /\ m_forms \in UNION {[1..n -> LoginForms] : n \in 0..MaxForms}
  /\ m_form = 0
  /\ m_posted = FALSE

NextForm ==
  \/ ExtractFormPayload
  \/ LoginSubmit

(***************************************************************************)
(* The admin panel behind its session flag (admin.py, security.py)          *)
(***************************************************************************)
\* config.py lines 38-39: the configured admin user and password
admin_user == "admin"
admin_password == "change-this"
Usernames == {admin_user, "guest"}
Passwords == {admin_password, "wrong"}

\* security.py lines 8-10: both comparisons must succeed
verify_admin_credentials(username, password) ==
  username = admin_user /\ password = admin_password

\* every request passes the gate
is_auth_always(session) == TRUE
\* admin.py _is_auth lines 27-28
is_auth(session) == session

\* admin.py line 184: the submitted confidence, in tenths, kept within 0..10
ClampConfidence(confidence) ==
  IF confidence > 10 THEN 10 ELSE IF confidence < 0 THEN 0 ELSE confidence

\* the record of one handled request: the session flag and the store on
\* both sides of it, and the rows a download was attempted for
GateEntry(handler, credentials_ok, session_after, S) ==
  [handler |-> handler, credentials_ok |-> credentials_ok,
   session_before |-> a_session, session_after |-> session_after,
   db_before |-> db, files_before |-> files,
   db_after |-> S.db, files_after |-> S.files, attempted |-> S.attempted]

Untouched == [db |-> db, seqs |-> seqs, files |-> files, attempted |-> {}]
NoneAttempted(S) == [db |-> S.db, seqs |-> S.seqs, files |-> S.files, attempted |-> {}]

gateRest == <<now, up_title, up_ver, up_atts, up_extra, up_bad_date, geo_mode,
              att_ok, changes, source_id, seqs, rpc, run_topics, rk, runs,
              admin_ops, faults, run_log, last_step, last_retry, dirty,
              stable, last_end, prev_end>>

\* what a handler leaves: the store S, the session flag and the record
Handled(handler, credentials_ok, session_after, S) ==
  /\ db' = S.db
  /\ files' = S.files
  /\ a_session' = session_after
  /\ a_log' = Append(a_log, GateEntry(handler, credentials_ok, session_after, S))
  /\ UNCHANGED gateRest
  /\ UNCHANGED nonSyncGateVars

\* admin.py login_submit lines 67-76
login_submit(username, password) ==
  /\ Len(a_log) < MaxRequests
  /\ Handled("login_submit", verify_admin_credentials(username, password),
             IF verify_admin_credentials(username, password)
             THEN TRUE ELSE a_session,
             Untouched)

\* admin.py logout lines 79-82: request.session.clear()
logout ==
  /\ Len(a_log) < MaxRequests
  /\ Handled("logout", FALSE, FALSE, Untouched)

\* admin.py retry_post_attachments_handler lines 159-168
retry_post_attachments_handler(post_id) ==
  /\ Len(a_log) < MaxRequests
  /\ Handled("retry_post_attachments_handler", FALSE, a_session,
             IF ~is_auth(a_session) THEN Untouched
             ELSE IF get_post(Session, post_id) = {} THEN Untouched
             ELSE retry_post_attachments(Session, post_id, FALSE))

\* admin.py update_topic_coords_handler lines 171-187
update_topic_coords_handler(topic_id, lat, lon, confidence) ==
  /\ Len(a_log) < MaxRequests
  /\ Handled("update_topic_coords_handler", FALSE, a_session,
             IF ~is_auth(a_session) THEN Untouched
             ELSE IF lat < 0 - 90 \/ lat > 90 \/ lon < 0 - 180 \/ lon > 180
             THEN Untouched
             ELSE NoneAttempted(
                    update_topic_coordinates(Session, topic_id, lat, lon,
                                             ClampConfidence(confidence),
                                             "manual", now)))

\* admin.py delete_post lines 190-196
delete_post(post_id) ==
  /\ Len(a_log) < MaxRequests
  /\ Handled("delete_post", FALSE, a_session,
             IF ~is_auth(a_session) THEN Untouched
             ELSE NoneAttempted(soft_delete_post(Session, post_id, now)))

\* admin.py restore_post_handler lines 199-205
restore_post_handler(post_id) ==
  /\ Len(a_log) < MaxRequests
  /\ Handled("restore_post_handler", FALSE, a_session,
             IF ~is_auth(a_session) THEN Untouched
             ELSE NoneAttempted(restore_post(Session, post_id)))

InitGateIdle ==
  /\ a_session = FALSE
  /\ a_log = <<>>

\* a browser with no session cookie, and a store of two topics with a post
\* each (the second soft-deleted); the first post has one attachment row
\* whose file was never downloaded
SeedAttachment ==
  [id |-> 1, post_id |-> 1, source_url |-> <<"attachments", 1>>,
   file_name |-> <<"f", ".", "j", "p", "g">>, is_image |-> TRUE,
   local_rel_path |-> NullPath, mime_type |-> NullStr, size_bytes |-> NullNum]

InitGate ==
  /\ a_session = FALSE
  /\ a_log = <<>>
  /\ now = 1
  /\ seqs = [topic |-> 3, post |-> 3, attachment |-> 2]
  /\ db = [topics |-> {SeedTopic(1, NoGeoFields), SeedTopic(2, NoGeoFields)},
           posts |-> {SeedPost(1, 1, FALSE), SeedPost(2, 2, TRUE)},
           attachments |-> {SeedAttachment}]

NextGate ==
  \/ \E username \in Usernames, password \in Passwords :
       login_submit(username, password)
  \/ logout
  \/ \E p \in RepoIds : retry_post_attachments_handler(p)
  \/ \E t \in RepoIds, lat \in {7, 91}, confidence \in {5, 12} :
       update_topic_coords_handler(t, lat, 8, confidence)
  \/ \E p \in RepoIds : delete_post(p)
  \/ \E p \in RepoIds : restore_post_handler(p)

(***************************************************************************)
(* One invocation of run(), a step for each network call                    *)
(* (sync_service.py run and _download_attachment, forum_scraper.py _fetch,  *)
(* fetch_topics and fetch_topic_posts)                                      *)
(***************************************************************************)
\* what one _fetch call meets: a URL robots.txt disallows, or a GET that is
\* answered with a 2xx status or fails
FetchOutcomes == {"blocked", "ok", "fail"}

\* _fetch lines 88-101 after the attempt-th GET: the body is returned, the
\* empty body is returned, or the loop sleeps and goes round again
AfterAttempt(attempt, outcome) ==
  IF outcome = "ok" THEN "html"
  ELSE IF LastAttempt(attempt) THEN "empty" ELSE "again"

\* every failed GET of a download is followed by a forced refresh
AnyAttempt(attempt) == TRUE
\* _download_attachment lines 89 and 106: `if attempt == 0`
IsFirstAttempt(attempt) == attempt = 0

SmallerOf(a, b) == IF a < b THEN a ELSE b

\* run() line 147: the next scraped topic, or the end of the loop and of run()
ToNextTopic(w) ==
  IF w.topics = 0 THEN [w EXCEPT !.pc = "done"]
  ELSE [w EXCEPT !.pc = "probe", !.topics = @ - 1, !.attempt = 0,
                 !.probes = 0, !.topic_pages = 0, !.atts = 0]

\* run() line 168: the next attachment of the topic's posts, or,
\* after the last of them, the geocode of lines 188-195
ToNextAttachment(w) ==
  IF w.atts = 0 THEN [w EXCEPT !.pc = "geocode"]
  ELSE [w EXCEPT !.pc = "download", !.atts = @ - 1]

\* fetch_topics line 195: `for page in range(1, self.max_forum_pages + 1)`
ToListingPage(w, page) ==
  IF page > w.max_forum_pages THEN ToNextTopic(w)
  ELSE [w EXCEPT !.pc = "listing", !.page = page, !.attempt = 0]

\* fetch_topic_posts line 236: `for page in range(start_page, last_page + 1)`
ToTopicPage(w, page) ==
  IF page > w.last_page THEN ToNextAttachment(w)
  ELSE [w EXCEPT !.pc = "pages", !.page = page, !.attempt = 0]

\* run() lines 142-146: the cookie and the source row, then the listing
RunBegins ==
  /\ loop.pc = "cookie"
  /\ loop' = ToListingPage(loop, 1)
  /\ UNCHANGED nonLoopVars

\* one GET of a _fetch that is still going round (or the robots.txt answer
\* that ends it before any GET): attempts made so far, and whether the call
\* is over with this one
FetchGoesOn(outcome) ==
  outcome # "blocked" /\ AfterAttempt(loop.attempt + 1, outcome) = "again"
AttemptsMade(outcome) == IF outcome = "blocked" THEN 0 ELSE loop.attempt + 1
GotHtml(outcome) == outcome = "ok"

\* fetch_topics lines 192-216: a GET of the listing page; `found` topics on
\* the page are not in the dict yet
ListingFetch(outcome, found) ==
  /\ loop.pc = "listing"
  /\ loop' =
       IF FetchGoesOn(outcome) THEN [loop EXCEPT !.attempt = @ + 1]
       ELSE ToListingPage(
              [loop EXCEPT !.made = AttemptsMade(outcome),
                           !.listing_pages = @ + 1,
                           !.topics = SmallerOf(@ + (IF GotHtml(outcome)
                                                     THEN found ELSE 0),
                                                MaxListed)],
              loop.page + 1)
  /\ UNCHANGED nonLoopVars

\* _topic_last_page lines 218-229 and fetch_topic_posts lines 234-235: a GET
\* of the topic's first page, whose page links go up to `last`
ProbeFetch(outcome, last) ==
  /\ loop.pc = "probe"
  /\ loop' =
       IF FetchGoesOn(outcome) THEN [loop EXCEPT !.attempt = @ + 1]
       ELSE LET last_page == IF GotHtml(outcome) THEN last ELSE 1
                w == [loop EXCEPT !.made = AttemptsMade(outcome),
                                  !.probes = @ + 1,
                                  !.last_page = last_page]
            IN  ToTopicPage(w, StartPage(last_page, loop.max_topic_pages))
  /\ UNCHANGED nonLoopVars

\* fetch_topic_posts lines 236-268: a GET of a page of posts with `atts`
\* attachments; a time value dateutil cannot parse raises out of the call
\* and run() rolls the topic back (lines 197-199)
PageFetch(outcome, atts, bad_date) ==
  /\ loop.pc = "pages"
  /\ loop' =
       IF FetchGoesOn(outcome) THEN [loop EXCEPT !.attempt = @ + 1]
       ELSE LET w == [loop EXCEPT !.made = AttemptsMade(outcome),
                                  !.topic_pages = @ + 1]
            IN  IF GotHtml(outcome) /\ bad_date THEN ToNextTopic(w)
                ELSE ToTopicPage(
                       [w EXCEPT !.atts = SmallerOf(@ + (IF GotHtml(outcome)
                                                         THEN atts ELSE 0),
                                                    MaxAtts)],
                       loop.page + 1)
  /\ UNCHANGED nonLoopVars

\* run() line 174 and _download_attachment lines 76-78: the file is there,
\* or ensure_cookie gave no cookie, or the loop of GETs starts
DownloadStarts == {"exists", "no_cookie", "cookie"}
DownloadBegins(start) ==
  /\ loop.pc = "download"
  /\ loop' =
       IF start = "exists" THEN ToNextAttachment(loop)
       ELSE IF start = "no_cookie"
       THEN ToNextAttachment([loop EXCEPT !.gets = 0, !.refreshes = 0])
       ELSE [loop EXCEPT !.pc = "get", !.dl_attempt = 0, !.gets = 0,
                         !.refreshes = 0]
  /\ UNCHANGED nonLoopVars

\* _download_attachment lines 79-112: the GET of one attempt
AttachmentGet(resp) ==
  /\ loop.pc = "get"
  /\ loop' =
       LET w == [loop EXCEPT !.gets = @ + 1]
       IN  IF resp = "ok" THEN ToNextAttachment(w)
           ELSE IF IsFirstAttempt(loop.dl_attempt)
           THEN [w EXCEPT !.pc = "refresh"]
           ELSE ToNextAttachment(w)
  /\ UNCHANGED nonLoopVars

\* _download_attachment lines 90-92 and 107-109: the forced refresh returns
\* a cookie (ensure_cookie does not raise and, the first cookie having been
\* non-empty, returns a non-empty one) and `continue` takes the next attempt
\* of range(2), if there is one
ForcedRefresh ==
  /\ loop.pc = "refresh"
  /\ loop' =
       LET w == [loop EXCEPT !.refreshes = @ + 1, !.dl_attempt = @ + 1]
       IN  IF w.dl_attempt < Attempts THEN [w EXCEPT !.pc = "get"]
           ELSE ToNextAttachment(w)
  /\ UNCHANGED nonLoopVars

\* run() lines 188-199: the topic is fresh, or the provider answers with a
\* result or none and the topic is committed, or the call raises and the
\* topic is rolled back; then the next topic
GeocodeOutcomes == {"fresh", "result", "none", "error"}
GeocodeReturns(outcome) ==
  /\ loop.pc = "geocode"
  /\ loop' = ToNextTopic(loop)
  /\ UNCHANGED nonLoopVars

LoopOff ==
  [pc |-> "off", max_forum_pages |-> 0, max_topic_pages |-> 0, page |-> 0,
   last_page |-> 0, attempt |-> 0, made |-> 0, topics |-> 0, atts |-> 0,
   dl_attempt |-> 0, gets |-> 0, refreshes |-> 0, listing_pages |-> 0,
   topic_pages |-> 0, probes |-> 0]

InitLoopIdle == loop = LoopOff

\* run() is called on a service made with any max_forum_pages and
\* max_topic_pages
InitLoop ==
  \E f \in 0..MaxForumPages, t \in 0..MaxTopicPages :
    loop = [LoopOff EXCEPT !.pc = "cookie", !.max_forum_pages = f,
                           !.max_topic_pages = t]

NextLoop ==
  \/ RunBegins
  \/ \E outcome \in FetchOutcomes, found \in 0..1 : ListingFetch(outcome, found)
  \/ \E outcome \in FetchOutcomes, last \in 1..MaxLastPage :
       ProbeFetch(outcome, last)
  \/ \E outcome \in FetchOutcomes, atts \in 0..1, bad_date \in BOOLEAN :
       PageFetch(outcome, atts, bad_date)
  \/ \E start \in DownloadStarts : DownloadBegins(start)
  \/ \E resp \in Responses : AttachmentGet(resp)
  \/ ForcedRefresh
  \/ \E outcome \in GeocodeOutcomes : GeocodeReturns(outcome)

(***************************************************************************)
(* Specification of the store                                               *)
(***************************************************************************)
\* the store before the first run: no rows, sequences at 1
InitEmptyStore ==
  /\ now = 0
  /\ db = EmptyDb
  /\ seqs = [topic |-> 1, post |-> 1, attachment |-> 1]

InitSyncRest ==
  /\ up_title = [e \in TopicExt |-> <<" ", "A", " ", "\t", "B", " ">>]
  /\ up_ver = 1
  /\ up_atts = <<"a">>
  /\ up_extra = FALSE
  /\ up_bad_date = 0
  /\ geo_mode \in {"ok", "none"}
  /\ att_ok = TRUE
  /\ changes = 0
  /\ source_id = 0
  /\ files = {}
  /\ rpc = "idle"
  /\ run_topics = <<>>
  /\ rk = 1
  /\ runs = 0
  /\ admin_ops = 0
  /\ faults = 0
  /\ run_log = <<>>
  /\ last_step = [ext |-> 0, at |-> 0, raised |-> FALSE, reached_geo |-> FALSE,
                  called |-> FALSE, kind |-> "none", pre |-> NoGeoFields]
  /\ last_retry = [post |-> 0, force |-> FALSE, ok |-> TRUE, attempted |-> {},
                   before |-> {}, had_file |-> {}, after |-> {}]
  /\ stable = 0
  /\ dirty = FALSE
  /\ last_end = EmptyDb
  /\ prev_end = EmptyDb

InitSync == InitEmptyStore /\ InitSyncRest

Next ==
  \/ \E ok \in BOOLEAN, listing_ok \in BOOLEAN : RunStart(ok, listing_ok)
  \/ \E fail \in FailPoints : TopicStep(fail)
  \/ RunEnd
  \/ Tick
  \/ \E e \in TopicExt, title \in RawTitles : UpstreamRetitle(e, title)
  \/ \E ver \in {1, 2}, atts \in AttLists : UpstreamEditPost(ver, atts)
  \/ UpstreamNewPost
  \/ \E e \in 0..NTopics : UpstreamBadDate(e)
  \/ \E mode \in {"ok", "none", "error"} : UpstreamGeocoder(mode)
  \/ UpstreamAttachments
  \/ \E p \in PostIds : AdminDeletePost(p)
  \/ \E p \in PostIds : AdminRestorePost(p)
  \/ \E t \in TopicIds : AdminUpdateCoords(t, 7, 7)
  \/ \E p \in PostIds, force \in BOOLEAN : AdminRetryAttachments(p, force)

\* the service is constructed; nobody calls ensure_cookie concurrently
InitAuthIdle ==
  /\ InitAuthService
  /\ has_credentials
  /\ login_url = "url"
  /\ fallback_cookie = ""

\* the components added below InitFetchIdle, none of them in use
InitLaterIdle ==
  /\ InitRepoIdle
  /\ InitTextIdle
  /\ InitSchedIdle
  /\ InitListingIdle
  /\ InitPostsIdle
  /\ InitCandIdle
  /\ InitFormIdle
  /\ InitGateIdle
  /\ InitLoopIdle

InitOthersIdle == InitGeoIdle /\ InitFetchIdle /\ InitLaterIdle

Init == InitAuthIdle /\ InitSync /\ InitDownload /\ InitOthersIdle
Spec == Init /\ [][Next]_vars

InitAuth ==
  InitAuthService /\ InitSync /\ geo_mode = "ok" /\ InitDownload /\ InitOthersIdle
SpecAuth == InitAuth /\ [][NextAuth]_vars

SpecDl == InitAuth /\ [][NextDl]_vars

InitSyncIdle ==
  InitAuthIdle /\ InitSync /\ geo_mode = "ok" /\ InitDownload /\ InitLaterIdle

\* the geocoding service with any provider and key, everything else idle
InitGeocoding == InitSyncIdle /\ InitGeo /\ InitFetchIdle
SpecGeo == InitGeocoding /\ [][NextGeo]_vars

\* the repository functions called on a store with two topics and two posts
InitRepo ==
  /\ InitAuthIdle
  /\ InitSyncRest
  /\ geo_mode = "ok"
  /\ InitSeededStore
  /\ InitDownload
  /\ InitOthersIdle
SpecRepo == InitRepo /\ [][NextRepo]_vars

\* title_to_place_name on every title of at most MaxTitleLen characters
InitTitles ==
  /\ InitAuthIdle
  /\ InitSync
  /\ geo_mode = "ok"
  /\ InitDownload
  /\ InitGeoIdle
  /\ InitFetchIdle
  /\ InitRepoIdle
  /\ InitText
  /\ InitSchedIdle
  /\ InitListingIdle
  /\ InitPostsIdle
  /\ InitCandIdle
  /\ InitFormIdle
  /\ InitGateIdle
  /\ InitLoopIdle
SpecText == InitTitles /\ [][NextText]_vars

\* the application before startup_event
InitApp ==
  /\ InitAuthIdle
  /\ InitSync
  /\ geo_mode = "ok"
  /\ InitDownload
  /\ InitGeoIdle
  /\ InitFetchIdle
  /\ InitRepoIdle
  /\ InitTextIdle
  /\ InitSchedIdle
  /\ InitListingIdle
  /\ InitPostsIdle
  /\ InitCandIdle
  /\ InitFormIdle
  /\ InitGateIdle
  /\ InitLoopIdle
SpecSched == InitApp /\ [][NextSched]_vars

\* fetch_topics on every listing of MaxForumPages pages
InitTopicListing ==
  /\ InitAuthIdle
  /\ InitSync
  /\ geo_mode = "ok"
  /\ InitDownload
  /\ InitGeoIdle
  /\ InitFetchIdle
  /\ InitRepoIdle
  /\ InitTextIdle
  /\ InitSchedIdle
  /\ InitListing
  /\ InitPostsIdle
  /\ InitCandIdle
  /\ InitFormIdle
  /\ InitGateIdle
  /\ InitLoopIdle
SpecListing == InitTopicListing /\ [][NextListing]_vars

\* fetch_topic_posts on every first page, by scrapers of every max_topic_pages
InitTopicPosts ==
  /\ InitAuthIdle
  /\ InitSync
  /\ geo_mode = "ok"
  /\ InitDownload
  /\ InitGeoIdle
  /\ InitFetchIdle
  /\ InitRepoIdle
  /\ InitTextIdle
  /\ InitSchedIdle
  /\ InitListingIdle
  /\ InitPosts
  /\ InitCandIdle
  /\ InitFormIdle
  /\ InitGateIdle
  /\ InitLoopIdle
SpecPosts == InitTopicPosts /\ [][NextPosts]_vars

\* a provider choosing among the candidates of every answer
InitCandidates ==
  /\ InitAuthIdle
  /\ InitSync
  /\ geo_mode = "ok"
  /\ InitDownload
  /\ InitGeoIdle
  /\ InitFetchIdle
  /\ InitRepoIdle
  /\ InitTextIdle
  /\ InitSchedIdle
  /\ InitListingIdle
  /\ InitPostsIdle
  /\ InitCand
  /\ InitFormIdle
  /\ InitGateIdle
  /\ InitLoopIdle
SpecCand == InitCandidates /\ [][NextCand]_vars

\* _login on every login page
InitLoginPage ==
  /\ InitAuthIdle
  /\ InitSync
  /\ geo_mode = "ok"
  /\ InitDownload
  /\ InitGeoIdle
  /\ InitFetchIdle
  /\ InitRepoIdle
  /\ InitTextIdle
  /\ InitSchedIdle
  /\ InitListingIdle
  /\ InitPostsIdle
  /\ InitCandIdle
  /\ InitForm
  /\ InitGateIdle
  /\ InitLoopIdle
SpecForm == InitLoginPage /\ [][NextForm]_vars

\* the admin panel and a browser that starts without a session
InitAdminPanel ==
  /\ InitAuthIdle
  /\ InitSyncRest
  /\ geo_mode = "ok"
  /\ InitDownload
  /\ InitGeoIdle
  /\ InitFetchIdle
  /\ InitRepoIdle
  /\ InitTextIdle
  /\ InitSchedIdle
  /\ InitListingIdle
  /\ InitPostsIdle
  /\ InitCandIdle
  /\ InitFormIdle
  /\ InitGate
  /\ InitLoopIdle
SpecGate == InitAdminPanel /\ [][NextGate]_vars

\* one run() from its first line; every network call it waits for returns
\* or fails, and the event loop then resumes the coroutine
InitRunLoop ==
  /\ InitAuthIdle
  /\ InitSync
  /\ geo_mode = "ok"
  /\ InitDownload
  /\ InitGeoIdle
  /\ InitFetchIdle
  /\ InitRepoIdle
  /\ InitTextIdle
  /\ InitSchedIdle
  /\ InitListingIdle
  /\ InitPostsIdle
  /\ InitCandIdle
  /\ InitFormIdle
  /\ InitGateIdle
  /\ InitLoop
SpecLoop == InitRunLoop /\ [][NextLoop]_vars /\ WF_vars(NextLoop)

\* a scraper with any max_concurrency, everything else idle
InitFetching == InitSyncIdle /\ InitGeoIdle /\ InitFetch
SpecFetch == InitFetching /\ [][NextFetch]_vars

(***************************************************************************)
(* Claims about SyncService.run and the store, checked under Spec           *)
(***************************************************************************)

\* C1 as stated: after two runs in a row against an unchanged upstream the
\* store holds the same rows with the same field values as after the first.
C1_SecondRunChangesNothing ==
  (rpc = "idle" /\ stable >= 2) => last_end = prev_end

\* C1 amended: after two runs in a row against an unchanged upstream the Post
\* and Attachment rows are identical and the Topic rows are the same rows with
\* the same values except last_seen_at, which every run stamps, and except the
\* geocode fields of a topic that was stale when the second run reached it.
C1_SecondRunChangesOnlyTimestamps ==
  (rpc = "idle" /\ stable >= 2) =>
    /\ last_end.posts = prev_end.posts
    /\ last_end.attachments = prev_end.attachments
    /\ Cardinality(last_end.topics) = Cardinality(prev_end.topics)
    /\ \A r2 \in last_end.topics : \E r1 \in prev_end.topics :
         \/ r2 = [r1 EXCEPT !.last_seen_at = r2.last_seen_at]
         \/ /\ \/ r1.geocoded_lat = NullNum
               \/ r1.geocoded_lon = NullNum
               \/ r1.geocode_updated_at = NullNum
               \/ r1.geocode_updated_at < r2.last_seen_at - TtlTicks
            /\ r2 = [r1 EXCEPT !.last_seen_at = r2.last_seen_at,
                               !.geocoded_lat = r2.geocoded_lat,
                               !.geocoded_lon = r2.geocoded_lon,
                               !.geocode_provider = r2.geocode_provider,
                               !.geocode_confidence = r2.geocode_confidence,
                               !.geocode_updated_at = r2.geocode_updated_at]

\* two clean runs in a row over a populated store, the clock having advanced
C1_Witness ==
  /\ rpc = "idle"
  /\ stable >= 2
  /\ last_end.attachments # {}
  /\ \E r \in last_end.attachments : r.local_rel_path # NullPath
  /\ last_end # prev_end

\* C2: in every reachable state no two Topic rows share (source_id,
\* external_id), no two Post rows share (topic_id, external_id) and no two
\* Attachment rows share (post_id, source_url).  The unique constraints of
\* models.py are not part of the model: the property follows from the
\* upserts alone.
C2_Uniqueness ==
  /\ \A a, b \in db.topics :
       (a.source_id = b.source_id /\ a.external_id = b.external_id) => a = b
  /\ \A a, b \in db.posts :
       (a.topic_id = b.topic_id /\ a.external_id = b.external_id) => a = b
  /\ \A a, b \in db.attachments :
       (a.post_id = b.post_id /\ a.source_url = b.source_url) => a = b

\* a second run has gone over the rows of the first, and an admin operation
\* has been applied
C2_Witness ==
  /\ runs >= 2
  /\ rpc = "idle"
  /\ admin_ops >= 1
  /\ prev_end.topics # {}
  /\ Cardinality(db.posts) >= 2
  /\ Cardinality(db.attachments) >= 2

\* C3: when an iteration of the loop raises, the committed rows are exactly
\* those committed before it (earlier topics keep theirs, the failed topic's
\* changes are gone), the loop goes on to the next topic, and run() returns
\* only after every listed topic has been handled.
C3_FailureIsolation ==
  [][/\ (rpc = "topics" /\ rk' # rk /\ last_step'.raised) =>
          (db' = db /\ rk' = rk + 1 /\ rpc' = "topics")
     /\ (rpc = "topics" /\ rpc' = "idle") =>
          Len(run_log) = Len(run_topics)]_vars

\* a run where the first topic failed and the second was committed
C3_Witness ==
  /\ rpc = "idle"
  /\ run_log = <<"failed", "ok">>
  /\ \E r \in db.topics : r.external_id = 2
  /\ \A r \in db.topics : r.external_id # 1

\* C9: an iteration calls the geocoding provider exactly when it reaches the
\* geocode step with a topic whose lat, lon or geocode_updated_at is null or
\* whose geocode_updated_at is older than now minus the TTL.
C9_GeocodeStaleness ==
  last_step.called <=>
    /\ last_step.reached_geo
    /\ \/ last_step.pre.lat = NullNum
       \/ last_step.pre.lon = NullNum
       \/ last_step.pre.updated_at = NullNum
       \/ last_step.pre.updated_at < last_step.at - TtlTicks

\* the provider was called for a topic with a full geocode, by TTL expiry
C9_Witness ==
  /\ last_step.called
  /\ last_step.pre.lat # NullNum
  /\ last_step.pre.lon # NullNum
  /\ last_step.pre.updated_at # NullNum

\* C10: an iteration that sent its topic to the provider and got no result
\* leaves the five geocode fields of the topic as they were, and no iteration
\* of any run nulls a stored geocode field.
C10_NoneKeepsGeocode ==
  [][(rpc = "topics" /\ rk' # rk) =>
       \A r \in db.topics : \E r2 \in db'.topics :
         /\ r2.id = r.id
         /\ (r.external_id = last_step'.ext /\ last_step'.called
               /\ last_step'.kind # "ok") => GeoFields(r2) = GeoFields(r)
         /\ r.geocoded_lat # NullNum => r2.geocoded_lat # NullNum
         /\ r.geocoded_lon # NullNum => r2.geocoded_lon # NullNum
         /\ r.geocode_provider # NullStr => r2.geocode_provider # NullStr
         /\ r.geocode_confidence # NullNum => r2.geocode_confidence # NullNum
         /\ r.geocode_updated_at # NullNum => r2.geocode_updated_at # NullNum]_vars

\* a topic with a stored geocode went stale, the provider answered none, and
\* the iteration was committed
C10_Witness ==
  /\ last_step.called
  /\ last_step.kind = "none"
  /\ ~last_step.raised
  /\ last_step.pre.lat # NullNum
  /\ \E r \in db.topics : r.external_id = last_step.ext
                          /\ GeoFields(r) = last_step.pre
                          /\ r.last_seen_at = last_step.at

\* C11: a committed iteration over a topic that already has a row leaves that
\* row with the title, url and place name of the listing and last_seen_at =
\* now, and, unless the row was stale (a null lat, lon or geocode_updated_at,
\* or geocode_updated_at older than now minus the TTL), with its five geocode
\* fields as they were.
C11_UpsertRefresh ==
  [][(rpc = "topics" /\ rk' # rk /\ ~last_step'.raised) =>
       \A r \in db.topics :
         r.external_id = run_topics[rk].external_id =>
           \E r2 \in db'.topics :
             /\ r2.id = r.id
             /\ r2.title = clean_text(up_title[r.external_id])
             /\ r2.url = run_topics[rk].url
             /\ r2.place_name = clean_text(up_title[r.external_id])
             /\ r2.last_seen_at = now
             /\ \/ r.geocoded_lat = NullNum
                \/ r.geocoded_lon = NullNum
                \/ r.geocode_updated_at = NullNum
                \/ r.geocode_updated_at < now - TtlTicks
                \/ GeoFields(r2) = GeoFields(r)]_vars

\* a topic geocoded by the first run was renamed upstream and the second run
\* stored the new title and kept the geocode
C11_Witness ==
  /\ rpc = "idle"
  /\ \E r \in prev_end.topics : \E r2 \in db.topics :
        /\ r2.id = r.id
        /\ r2.title # r.title
        /\ r2.title = clean_text(up_title[r.external_id])
        /\ r.geocoded_lat # NullNum
        /\ GeoFields(r2) = GeoFields(r)

(***************************************************************************)
(* Claims about SyncService._download_attachment, checked under SpecDl      *)
(***************************************************************************)

\* C4: in a call whose first GET is answered 401, 403 or by the login page,
\* one ensure_cookie(force_refresh=True) is made and the GET is sent a second
\* and last time; if the second answer is unauthorized too the call returns
\* None (it has no raising outcome), no file is written and the row's
\* local_rel_path is what it was before the call, null if it was null.
C4_RetryOnAuth ==
  (d_resps # <<>> /\ Unauthorized(d_resps[1])) =>
    /\ d_forced = 1
    /\ d_gets = Len(d_resps)
    /\ d_gets <= 2
    /\ dpc = "get" <=> d_gets = 1
    /\ (d_gets = 2 /\ Unauthorized(d_resps[2])) =>
         /\ d_result = "none"
         /\ ~d_file
         /\ d_row_path = d_row_before

\* twice unauthorized, for a row whose path was null, and the row upserted
C4_Witness ==
  /\ dpc = "stored"
  /\ Len(d_resps) = 2
  /\ Unauthorized(d_resps[1])
  /\ Unauthorized(d_resps[2])
  /\ d_row_before = NullPath
  /\ d_row_path = NullPath

\* C21 as stated: a forced cookie refresh and a second GET happen only after
\* an authentication failure; a GET that failed in another way (transport
\* error, timeout, other non-2xx status) ends the call with no forced refresh
\* and no second request.
C21_RefreshOnlyOnAuthFailure ==
  (d_resps # <<>> /\ d_resps[1] = "error") =>
    /\ d_forced = 0
    /\ d_gets = 1
    /\ dpc # "get"

\* what the code does: the first GET raised, the cookie was refreshed by
\* force, the GET was sent again and its bytes were written
C21_RetriedAfterError ==
  /\ dpc = "stored"
  /\ d_resps = <<"error", "ok">>
  /\ d_forced = 1
  /\ d_row_path = RelPath

(***************************************************************************)
(* Claims about ForumAuthService, checked under SpecAuth                    *)
(***************************************************************************)

C6_LoginMutex ==
  Cardinality({c \in Callers : apc[c] \in LoginPcs}) <= 1

C6_Witness ==
  \E c, d \in Callers :
    /\ apc[c] = "login_post"
    /\ apc[d] = "waiting" /\ force_refresh[d]

\* C7: a call whose _login returned no cookie returns the cookie that was cached
\* when it entered the lock if that is non-empty, else the fallback cookie, and
\* leaves the cache as it was; the call ends by returning (no raise).
C7_FailedRefreshKeepsCache ==
  [][\A c \in Callers :
       (apc[c] \in LoginPcs /\ apc'[c] = "done" /\ fresh_cookie'[c] = "") =>
         /\ cached_cookie' = seen_cache[c]
         /\ aret'[c] = IF seen_cache[c] # "" THEN seen_cache[c] ELSE fallback_cookie]_vars

C7_Witness ==
  \E c \in Callers :
    /\ apc[c] = "done" /\ did_login[c] /\ fresh_cookie[c] = ""
    /\ seen_cache[c] \in FreshCookies /\ aret[c] = seen_cache[c]
    /\ cached_cookie = seen_cache[c]

\* C37: with credentials configured the cache changes only in the step in
\* which a caller's _login returns a non-empty cookie, and to that cookie;
\* a non-empty cache stays non-empty and is a cookie a login captured, never
\* the fallback cookie.
C37_CacheChangesOnlyByLogin ==
  [][has_credentials =>
       /\ cached_cookie' # cached_cookie =>
            \E c \in Callers :
              /\ apc[c] \in LoginPcs
              /\ apc'[c] \notin LoginPcs
              /\ fresh_cookie'[c] # ""
              /\ cached_cookie' = fresh_cookie'[c]
       /\ cached_cookie # "" =>
            /\ cached_cookie' # ""
            /\ cached_cookie' \in FreshCookies]_vars

\* with a fallback cookie configured, a forced refresh failed while another
\* caller was waiting for the lock, and the cache still holds the cookie of
\* the earlier login
C37_Witness ==
  /\ has_credentials
  /\ fallback_cookie = "fb"
  /\ cached_cookie \in FreshCookies
  /\ \E c \in Callers, d \in Callers :
       /\ c # d
       /\ apc[c] = "done" /\ did_login[c] /\ force_refresh[c]
       /\ fresh_cookie[c] = ""
       /\ seen_cache[c] = cached_cookie
       /\ apc[d] = "locked"

\* C8: a call reaches _login only with credentials configured and with
\* force_refresh set or an empty cache; without credentials it returns the
\* fallback cookie and logs in never; with credentials, a non-empty cache and
\* force_refresh = false it returns the cached cookie and does not log in.
C8_LoginOnlyWhenNeeded ==
  \A c \in Callers :
    /\ did_login[c] => (has_credentials /\ (force_refresh[c] \/ seen_cache[c] = ""))
    /\ (apc[c] = "done" /\ ~has_credentials) =>
         (aret[c] = fallback_cookie /\ ~did_login[c])
    /\ (apc[c] = "done" /\ has_credentials /\ seen_cache[c] # "" /\ ~force_refresh[c]) =>
         (aret[c] = seen_cache[c] /\ ~did_login[c])

C8_Witness ==
  \E c, d \in Callers :
    /\ has_credentials
    /\ apc[c] = "done" /\ ~force_refresh[c] /\ ~did_login[c] /\ aret[c] \in FreshCookies
    /\ apc[d] \in LoginPcs /\ force_refresh[d]

C19_LocalPathOnlyAfterDownload ==
  \A row \in db.attachments :
    row.local_rel_path # NullPath =>
      \E f \in files : f.path = row.local_rel_path /\ row.source_url \in f.urls

\* C20 as stated: without force the retry attempts a download for exactly the
\* attachments of the post that had no downloaded file (from a run or an
\* earlier retry); with force it attempts every attachment of the post; an
\* attempt that failed leaves the row as it was.
C20_RetryAttemptsMissingOnly ==
  LET all == {r.id : r \in last_retry.before}
  IN  /\ last_retry.attempted =
           IF last_retry.force THEN all ELSE all \ last_retry.had_file
      /\ ~last_retry.ok =>
           \A r \in last_retry.before :
             r.id \in last_retry.attempted => r \in last_retry.after

\* the part of C20 about force the code keeps: a forced retry attempts every
\* row of the post, those with a downloaded file included
C20_ForcedRetry ==
  /\ last_retry.post # 0
  /\ last_retry.force
  /\ Cardinality(last_retry.before) = 2
  /\ last_retry.had_file = {r.id : r \in last_retry.before}
  /\ last_retry.attempted = {r.id : r \in last_retry.before}

\* C36: a retry without force leaves every local_rel_path that was set as
\* it was (fails: run() names the file by the attachment's position in its
\* post, the retry by the row's id, so the retry finds no file at its own
\* path, downloads again and stores the second path in the row).
C36_LocalPathStable ==
  (last_retry.post # 0 /\ ~last_retry.force) =>
    \A r \in last_retry.before :
      r.local_rel_path # NullPath =>
        \E r2 \in last_retry.after :
          /\ r2.id = r.id
          /\ r2.local_rel_path = r.local_rel_path

\* a retry without force moved a row from the path run() gave it to another
\* path, and the attachment's bytes are in the directory under both
C36_SecondPath ==
  /\ last_retry.post # 0
  /\ ~last_retry.force
  /\ \E r \in last_retry.before : \E r2 \in db.attachments :
       /\ r2.id = r.id
       /\ r.local_rel_path # NullPath
       /\ r2.local_rel_path # r.local_rel_path
       /\ \E f \in files : f.path = r.local_rel_path /\ r.source_url \in f.urls
       /\ \E f \in files : f.path = r2.local_rel_path /\ r.source_url \in f.urls

\* C23: no step of run() changes the soft-delete state of a post: every
\* post row is still there after the step with the is_deleted and deleted_at
\* it had, and a soft-deleted post the iteration saw again and committed
\* carries the author, timestamp, content and url just scraped.
C23_RunKeepsSoftDelete ==
  [][(rk' # rk \/ rpc' # rpc) =>
       \A r \in db.posts : \E r2 \in db'.posts :
         /\ r2.id = r.id
         /\ r2.is_deleted = r.is_deleted
         /\ r2.deleted_at = r.deleted_at
         /\ (/\ rpc = "topics" /\ rk' # rk /\ ~last_step'.raised
             /\ r.is_deleted
             /\ \E t \in db.topics : /\ t.id = r.topic_id
                                     /\ t.external_id = last_step'.ext) =>
              \A i \in 1..Len(PostsOf(last_step'.ext)) :
                LET p == PostsOf(last_step'.ext)[i]
                IN  p.external_id = r.external_id =>
                      /\ r2.author = p.author
                      /\ r2.posted_at_utc = p.posted_at_utc
                      /\ r2.content_text = p.content_text
                      /\ r2.url = p.url]_vars

\* a post soft-deleted at an earlier time was edited upstream, and the
\* iteration that saw it again has committed the new content
C23_Witness ==
  /\ rpc = "topics"
  /\ rk = 2
  /\ last_step.ext = 1
  /\ ~last_step.raised
  /\ \E r \in db.posts :
       /\ r.is_deleted
       /\ r.deleted_at # NullNum
       /\ r.deleted_at < last_step.at
       /\ r.posted_at_utc = 2
       /\ r.content_text = <<"text", 2>>

\* C34: an iteration that called the geocoding provider is committed whatever
\* the provider did: its topic row carries the iteration's time and every
\* post scraped for the topic has a row (fails: an exception of the provider
\* leaves the try of the iteration and everything is rolled back).
C34_GeocodeNeverCostsPosts ==
  (rpc = "topics" /\ last_step.called /\ faults = 0) =>
    /\ ~last_step.raised
    /\ \E r \in db.topics :
         /\ r.external_id = last_step.ext
         /\ r.last_seen_at = last_step.at
         /\ \A i \in 1..Len(PostsOf(last_step.ext)) :
              FindPost([db |-> db], r.id, PostsOf(last_step.ext)[i].external_id) # {}

\* the provider raised in the first iteration of a first run: the topic and
\* its posts have no row
C34_PostsLostToGeocoder ==
  /\ rpc = "topics"
  /\ faults = 0
  /\ last_step.called
  /\ last_step.kind = "error"
  /\ last_step.raised
  /\ \A r \in db.topics : r.external_id # last_step.ext
  /\ db.posts = {}

(***************************************************************************)
(* Claims about the geocoding providers, checked under SpecGeo              *)
(***************************************************************************)

\* C12 as stated: geocode returns none and never raises when the API key is
\* missing, when the HTTP request fails or times out, when the status is
\* non-2xx, and when the JSON is malformed or holds no candidate, for both
\* providers.
C12_NoneNeverRaises ==
  (/\ g_out # "pending"
   /\ \/ ~g_key
      \/ g_http # "2xx"
      \/ g_body \in {"not_json", "not_object", "no_candidate"})
    => g_out = "none"

\* what the code does in the claim's cases: none only without a key or with a
\* well-formed answer that holds no candidate
C12_RaisesOnTransport ==
  /\ g_out = "raised"
  /\ g_key
  /\ g_http = "timeout"


(***************************************************************************)
(* Claims about ForumScraper._fetch, checked under SpecFetch                *)
(***************************************************************************)

\* C14: one _fetch call sends at most 3 GETs, none after a GET that was
\* answered 2xx; it returns the body when its last GET was answered 2xx and
\* the empty body after 3 GETs that failed (or with no GET at all when
\* robots.txt refuses the URL); every outcome of a GET leads to a state of
\* the call, so it never raises.
C14_FetchRetries ==
  \A f \in Fetchers :
    LET n == Len(f_outcomes[f])
    IN  /\ n <= 3
        /\ \A i \in 1..(n - 1) : f_outcomes[f][i] # "2xx"
        /\ fpc[f] \in {"idle", "acquire", "get", "rate_sleep", "backoff", "done"}
        /\ fpc[f] = "rate_sleep" => (n >= 1 /\ f_outcomes[f][n] = "2xx")
        /\ fpc[f] = "backoff" => (n \in 1..2 /\ f_outcomes[f][n] # "2xx")
        /\ (fpc[f] = "done" /\ f_robots[f].allowed) =>
             \/ f_result[f] = "body" /\ n >= 1 /\ f_outcomes[f][n] = "2xx"
             \/ f_result[f] = "" /\ n = 3 /\ f_outcomes[f][n] # "2xx"

\* a call has returned the empty body after a non-2xx answer, a transport
\* error and another transport error
C14_Witness ==
  \E f \in Fetchers :
    /\ fpc[f] = "done"
    /\ f_result[f] = ""
    /\ f_outcomes[f] = <<"non_2xx", "error", "error">>

\* C15: the GETs in flight never exceed max(1, max_concurrency); the free
\* permits plus the holders (a GET in flight, or the sleep after a 2xx
\* answer) always add up to that number, so a permit taken is given back on
\* every way out of an attempt, and all are free when no call is inside one.
C15_BoundedConcurrency ==
  LET limit == IF max_concurrency < 1 THEN 1 ELSE max_concurrency
      holders == {f \in Fetchers : fpc[f] \in {"get", "rate_sleep"}}
  IN  /\ Cardinality({f \in Fetchers : fpc[f] = "get"}) <= limit
      /\ permits >= 0
      /\ permits + Cardinality(holders) = limit
      /\ (\A f \in Fetchers : fpc[f] \in {"idle", "done"}) => permits = limit

\* max_concurrency = 0: one call has its GET in flight and another waits at
\* the semaphore after an attempt of its own failed
C15_Witness ==
  /\ max_concurrency = 0
  /\ permits = 0
  /\ \E f, g \in Fetchers :
       /\ fpc[f] = "get"
       /\ fpc[g] = "acquire"
       /\ f_attempt[g] = 2

\* C16 as stated: every completed request of a coroutine, successful or
\* failed, is followed by a delay step before its next request is sent: no
\* GET is in flight whose coroutine has completed a request and not slept
\* since.
C16_DelayAfterEveryRequest ==
  \A f \in Fetchers : fpc[f] = "get" => ~undelayed[f]

\* C17 as stated: a fetch of a URL the loaded robots.txt disallows sends no
\* GET and returns the empty body; a fetch made while robots.txt cannot be
\* read (the read raised, or the server answered the robots.txt request with
\* a 5xx) is treated as allowed.
C17_RobotsCompliance ==
  \A f \in Fetchers :
    fpc[f] # "idle" =>
      /\ (f_robots[f].policy = "loaded" /\ f_url[f] = "disallowed") =>
           (fpc[f] = "done" /\ f_outcomes[f] = <<>> /\ f_result[f] = "")
      /\ f_robots[f].policy \in {"raised", "unread"} => f_robots[f].allowed

\* the part of C17 the code keeps: a URL the parsed file disallows is
\* refused without a GET
C17_Refused ==
  \E f \in Fetchers :
    /\ fpc[f] = "done"
    /\ f_robots[f].policy = "loaded"
    /\ f_url[f] = "disallowed"
    /\ f_outcomes[f] = <<>>
    /\ f_result[f] = ""

\* C18 as stated: one ForumScraper reads robots.txt at most once, whether the
\* first read succeeded or failed.
C18_RobotsReadOnce == robots_reads <= 1


(***************************************************************************)
(* Claims about the repository functions, checked under SpecRepo            *)
(***************************************************************************)

\* C22: after soft_delete_post(p) returned true, list_posts without
\* include_deleted does not return p, and with include_deleted it returns p
\* (has_geo off, or on for a post it returned before) with is_deleted true;
\* after restore_post(p) returned true, p has is_deleted false and no
\* deleted_at and list_posts without include_deleted returns it again; both
\* return false and change no row for an id with no post.
C22_SoftDeleteRoundTrip ==
  \A i \in 1..Len(r_log) :
    LET e == r_log[i]
        B == [db |-> e.before]
        A == [db |-> e.after]
        row == CHOOSE r \in e.after.posts : r.id = e.id
    IN  e.fn \in {"soft_delete_post", "restore_post"} =>
          /\ e.ret <=> \E r \in e.before.posts : r.id = e.id
          /\ ~e.ret => e.after = e.before
          /\ (e.ret /\ e.fn = "soft_delete_post") =>
               /\ row.is_deleted
               /\ \A has_geo \in BOOLEAN :
                    /\ e.id \notin IdsOf(list_posts(A, has_geo, FALSE, 100))
                    /\ e.id \in IdsOf(list_posts(A, has_geo, TRUE, 100))
                         <=> e.id \in IdsOf(list_posts(B, has_geo, TRUE, 100))
               /\ e.id \in IdsOf(list_posts(A, FALSE, TRUE, 100))
          /\ (e.ret /\ e.fn = "restore_post") =>
               /\ ~row.is_deleted
               /\ row.deleted_at = NullNum
               /\ e.id \in IdsOf(list_posts(A, FALSE, FALSE, 100))
               /\ \A has_geo \in BOOLEAN :
                    e.id \in IdsOf(list_posts(A, has_geo, FALSE, 100))
                      <=> e.id \in IdsOf(list_posts(A, has_geo, TRUE, 100))

\* a visible post was soft-deleted and then restored
C22_Witness ==
  /\ Len(r_log) = 2
  /\ r_log[1].fn = "soft_delete_post"
  /\ r_log[1].ret
  /\ 1 \in IdsOf(list_posts([db |-> r_log[1].before], TRUE, FALSE, 100))
  /\ r_log[1].id = 1
  /\ r_log[2].fn = "restore_post"
  /\ r_log[2].id = 1
  /\ r_log[2].ret
  /\ 1 \in IdsOf(list_posts([db |-> db], TRUE, FALSE, 100))

\* C24: update_topic_coordinates on a topic that exists returns true and
\* leaves that row with the latitude, longitude, confidence and provider it
\* was given and geocode_updated_at at the time of the call, every other
\* field and row as before; on an id with no topic it returns false and the
\* store is what it was.
C24_UpdateTopicCoordinates ==
  \A i \in 1..Len(r_log) :
    LET e == r_log[i]
        B == [db |-> e.before]
        A == [db |-> e.after]
    IN  e.fn = "update_topic_coordinates" =>
          /\ e.ret <=> (get_topic(B, e.id) # {})
          /\ ~e.ret => e.after = e.before
          /\ e.ret =>
               /\ e.after.posts = e.before.posts
               /\ e.after.attachments = e.before.attachments
               /\ {r \in e.after.topics : r.id # e.id}
                    = {r \in e.before.topics : r.id # e.id}
               /\ \A old \in get_topic(B, e.id) :
                    get_topic(A, e.id) =
                      {[old EXCEPT !.geocoded_lat = e.args.lat,
                                   !.geocoded_lon = e.args.lon,
                                   !.geocode_confidence = e.args.confidence,
                                   !.geocode_provider = e.args.provider,
                                   !.geocode_updated_at = e.at]}

\* one call changed a geocoded topic's provider and timestamp, and one
\* call named the id that has no topic
C24_Witness ==
  /\ Len(r_log) = 2
  /\ r_log[1].fn = "update_topic_coordinates"
  /\ r_log[1].ret
  /\ \E old \in get_topic([db |-> r_log[1].before], r_log[1].id) :
       /\ old.geocode_provider # r_log[1].args.provider
       /\ old.geocode_provider # NullStr
       /\ old.geocode_updated_at # r_log[1].at
       /\ old.geocoded_lat # r_log[1].args.lat
  /\ r_log[2].fn = "update_topic_coordinates"
  /\ ~r_log[2].ret

\* C25: posts_for_map returns only posts that are not soft-deleted, whose
\* topic has latitude and longitude and a confidence (none counted as 0) of
\* at least min_geo_confidence; it returns each such post once, all of them
\* when the limit allows and limit of them otherwise; every returned post
\* comes with its own topic row, whose coordinates are set.
C25_PostsForMap ==
  \A i \in 1..Len(r_log) :
    LET e == r_log[i]
        B == [db |-> e.before]
        qualifying ==
          {p \in e.before.posts :
             /\ ~p.is_deleted
             /\ \E t \in e.before.topics :
                  /\ t.id = p.topic_id
                  /\ t.geocoded_lat # NullNum
                  /\ t.geocoded_lon # NullNum
                  /\ (IF t.geocode_confidence = NullNum THEN 0
                      ELSE t.geocode_confidence) >= e.args.min_geo_confidence}
    IN  e.fn = "posts_for_map" =>
          /\ e.after = e.before
          /\ \A k \in 1..Len(e.ret) :
               /\ e.ret[k].post \in qualifying
               /\ e.ret[k].topic \in get_topic(B, e.ret[k].post.topic_id)
               /\ e.ret[k].topic.geocoded_lat # NullNum
               /\ e.ret[k].topic.geocoded_lon # NullNum
               /\ \A m \in 1..Len(e.ret) :
                    e.ret[m].post.id = e.ret[k].post.id => m = k
          /\ Len(e.ret) = IF Cardinality(qualifying) <= e.args.limit
                          THEN Cardinality(qualifying) ELSE e.args.limit

\* a query at confidence 0 returned two posts, one of a topic with
\* coordinates set by hand and no confidence; the same query at the
\* configured confidence and limit 1 returned the other post alone
C25_Witness ==
  /\ Len(r_log) = 2
  /\ r_log[1].fn = "posts_for_map"
  /\ r_log[1].args.min_geo_confidence = 0
  /\ Len(r_log[1].ret) = 2
  /\ \E k \in 1..Len(r_log[1].ret) :
       r_log[1].ret[k].topic.geocode_confidence = NullNum
  /\ r_log[2].fn = "posts_for_map"
  /\ r_log[2].args.limit = 1
  /\ r_log[2].args.min_geo_confidence = 4
  /\ Len(r_log[2].ret) = 1
  /\ r_log[2].ret[1].topic.geocode_confidence = 5

\* C38: in every state that soft_delete_post, restore_post and upsert_post
\* (refreshing a row or creating one) lead to, and before and after each of
\* their calls, a post has deleted_at set exactly when is_deleted is true.
C38_DeletedAtIffDeleted ==
  LET Consistent(posts) ==
        \A p \in posts : (p.deleted_at # NullNum) <=> p.is_deleted
  IN  /\ Consistent(db.posts)
      /\ \A i \in 1..Len(r_log) :
           Consistent(r_log[i].before.posts) /\ Consistent(r_log[i].after.posts)

\* a post created by upsert_post was then soft-deleted
C38_Witness ==
  /\ Len(r_log) = 2
  /\ r_log[1].fn = "upsert_post"
  /\ r_log[1].id = 3
  /\ r_log[2].fn = "soft_delete_post"
  /\ r_log[2].id = 3
  /\ \E p \in db.posts : p.id = 3 /\ p.is_deleted /\ p.deleted_at = 1

\* a deleted post was restored and then refreshed by upsert_post: no flag, no
\* deleted_at
C38_RestoredThenUpserted ==
  /\ Len(r_log) = 2
  /\ r_log[1].fn = "restore_post"
  /\ r_log[1].ret
  /\ \E p \in r_log[1].before.posts : p.id = r_log[1].id /\ p.is_deleted
  /\ r_log[2].fn = "upsert_post"
  /\ r_log[2].id = r_log[1].id
  /\ \E p \in db.posts :
       /\ p.id = r_log[1].id
       /\ ~p.is_deleted
       /\ p.deleted_at = NullNum
       /\ p.posted_at_utc = 2

(***************************************************************************)
(* Claims about the text helpers, checked under SpecText                    *)
(***************************************************************************)
\* C26: the place name of a title has the title's characters other than
\* whitespace in the same order, two of them next to each other exactly when
\* they were next to each other in the title and one space between them
\* otherwise, and nothing before the first or after the last; the place name
\* of a place name is that place name.
C26_PlaceNameNormalized ==
  LET Ink(t) == {i \in 1..Len(t) : t[i] \notin Whitespace}
      Nth(t, k) == CHOOSE i \in Ink(t) :
                     Cardinality({j \in Ink(t) : j <= i}) = k
      n == Cardinality(Ink(t_title))
  IN  /\ tpc \in {"place", "again"} =>
           /\ Cardinality(Ink(t_place)) = n
           /\ \A k \in 1..n :
                t_place[Nth(t_place, k)] = t_title[Nth(t_title, k)]
           /\ \A k \in 1..(n - 1) :
                IF Nth(t_title, k + 1) = Nth(t_title, k) + 1
                THEN Nth(t_place, k + 1) = Nth(t_place, k) + 1
                ELSE /\ Nth(t_place, k + 1) = Nth(t_place, k) + 2
                     /\ t_place[Nth(t_place, k) + 1] = " "
           /\ Len(t_place) = IF n = 0 THEN 0 ELSE Nth(t_place, n)
           /\ n > 0 => Nth(t_place, 1) = 1
      /\ tpc = "again" => t_again = t_place

\* a title with whitespace before, between (a run of two kinds) and after
\* its two words was normalised, and normalised again
C26_Witness ==
  /\ tpc = "again"
  /\ t_title = <<" ", "A", "\t", " ", "B">>
  /\ t_place = <<"A", " ", "B">>
  /\ t_again = t_place

(***************************************************************************)
(* Claims about the scheduling of run(), checked under SpecSched            *)
(***************************************************************************)
\* C27: at most one invocation of run() is in progress at any time (fails:
\* the run started at startup is a task of its own, which the scheduler does
\* not count, so the first interval tick starts a second run beside it).
C27_NoOverlap == RunsInProgress <= 1

\* an interval tick found an instance of the job executing and started none
C27_TickSkipped ==
  /\ s_skipped > 0
  /\ s_instances = 1

\* the startup run and an instance of the interval job in progress together
C27_Overlap ==
  /\ s_startup = "running"
  /\ s_instances = 1
  /\ s_ticks = 1

(***************************************************************************)
(* Claims about the scraper's parsing, checked under SpecListing            *)
(***************************************************************************)
\* C28: fetch_topics asks for the listing pages 1..max_forum_pages in that
\* order and no other; it returns one stub for each external id that a
\* thread link of a fetched page carries and nothing else, the stub built
\* from the last such link over the pages in page order, the stubs in the
\* order in which their ids first occurred; a page that failed to fetch
\* contributes no link and takes none away.
C28_TopicListing ==
  LET Occ == UNION {{<<p, i>> : i \in {k \in 1..Len(l_pages[p].links) :
                                         /\ l_pages[p].ok
                                         /\ l_pages[p].links[k].kind = "thread"}}
                    : p \in 1..MaxForumPages}
      LinkAt(o) == l_pages[o[1]].links[o[2]]
      Earlier(a, b) == a[1] < b[1] \/ (a[1] = b[1] /\ a[2] < b[2])
      OccOf(ext) == {o \in Occ : LinkAt(o).ext = ext}
      First(ext) == CHOOSE o \in OccOf(ext) :
                      \A x \in OccOf(ext) : x = o \/ Earlier(o, x)
      Last(ext) == CHOOSE o \in OccOf(ext) :
                     \A x \in OccOf(ext) : x = o \/ Earlier(x, o)
      Ids == {LinkAt(o).ext : o \in Occ}
  IN  /\ \A i \in 1..Len(l_requested) : l_requested[i] = i
      /\ Len(l_requested) <= MaxForumPages
      /\ lpc = "done" =>
           /\ Len(l_requested) = MaxForumPages
           /\ Len(l_result) = Cardinality(Ids)
           /\ \A ext \in Ids : \E i \in 1..Len(l_result) :
                /\ l_result[i].external_id = ext
                /\ l_result[i] = LinkTopic(LinkAt(Last(ext)))
           /\ \A i \in 1..Len(l_result), j \in 1..Len(l_result) :
                i < j => Earlier(First(l_result[i].external_id),
                                 First(l_result[j].external_id))

\* the first page listed topic 2 then topic 1, the second failed, the third
\* listed topic 1 under another title and then topic 2: the list returned
\* has topic 2 first, each with the third page's title
C28_Witness ==
  /\ lpc = "done"
  /\ l_pages[1] = Page(<<ThreadLink(2, <<"B", "\t", " ", "A">>),
                         ThreadLink(1, <<"B">>)>>)
  /\ l_pages[2] = FailedPage
  /\ l_pages[3] = Page(<<ThreadLink(1, <<"A">>), ThreadLink(2, <<"A">>)>>)
  /\ Len(l_result) = 2
  /\ l_result[1].external_id = 2
  /\ l_result[1].title = <<"A">>
  /\ l_result[2].external_id = 1
  /\ l_result[2].title = <<"A">>

(***************************************************************************)
(* Claims about fetch_topic_posts, checked under SpecPosts                  *)
(***************************************************************************)
\* C29: the pages fetch_topic_posts asks for in its loop are start, start+1,
\* ... in that order, where last_page is the largest page number linked from
\* the first page (1 when there is none, none above 1, or the first page
\* could not be fetched) and start is the larger of 1 and
\* last_page - max_topic_pages + 1; they are never more than max_topic_pages
\* and, when the call returns, they are exactly start..last_page.
C29_PageWindow ==
  LET nums == IF p_first.ok
              THEN {1} \cup {p_first.links[i] : i \in 1..Len(p_first.links)}
              ELSE {1}
      last == CHOOSE m \in nums : \A x \in nums : x <= m
      start == IF last - p_max + 1 >= 1 THEN last - p_max + 1 ELSE 1
  IN  ppc \in {"pages", "done", "raised"} =>
        /\ p_last = last
        /\ \A i \in 1..Len(p_requested) : p_requested[i] = start + i - 1
        /\ Len(p_requested) <= p_max
        /\ Len(p_requested) <= last - start + 1
        /\ ppc = "done" => Len(p_requested) = last - start + 1

\* the first page links pages 2, 5 and 3: a scraper with max_topic_pages 2
\* asked for pages 4 and 5 and returned
C29_Witness ==
  /\ ppc = "done"
  /\ p_max = 2
  /\ p_first = FirstPage(<<2, 5, 3>>)
  /\ p_requested = <<4, 5>>

\* C30: a block without an id or without a timestamp value produces no post
\* and changes nothing else: what a call returns is one post for each id
\* that a block with an id and a timestamp carries on a fetched page, and
\* whether it raises depends on the blocks with an id and a timestamp alone.
C30_MissingFieldDropsRecord ==
  LET Usable == UNION {{p_fetched[k].blocks[i] :
                          i \in {j \in 1..Len(p_fetched[k].blocks) :
                                   /\ p_fetched[k].blocks[j].id # NullNum
                                   /\ p_fetched[k].blocks[j].time # "none"}}
                       : k \in 1..Len(p_fetched)}
  IN  /\ ppc = "raised" => \E b \in Usable : b.time = "bad"
      /\ ppc = "done" =>
           /\ \A b \in Usable : b.time # "bad"
           /\ {p_result[i].external_id : i \in 1..Len(p_result)}
                = {b.id : b \in Usable}
           /\ \A i \in 1..Len(p_result) :
                /\ \E b \in Usable :
                     /\ b.id = p_result[i].external_id
                     /\ p_result[i].posted_at_utc = IF b.time = "t1" THEN 1 ELSE 2
                /\ \A j \in 1..Len(p_result) :
                     p_result[j].external_id = p_result[i].external_id => j = i

\* a page whose first block has no timestamp and a page whose first block
\* has no id were fetched, and the call returned the post of each page's
\* second block
C30_Witness ==
  /\ ppc = "done"
  /\ p_fetched = <<PostsPage(<<Block(7, "none"), Block(8, "t1")>>),
                   PostsPage(<<Block(NullNum, "bad"), Block(7, "t1")>>)>>
  /\ Len(p_result) = 2
  /\ p_result[1].external_id = 8
  /\ p_result[2].external_id = 7

\* C35: a block whose timestamp value cannot be parsed does not make
\* fetch_topic_posts raise: every call returns (fails: parse_datetime_to_utc
\* raises out of the call, and no post of the topic is returned).
C35_BadDateDoesNotRaise == ppc # "raised"

\* the second page fetched holds a block with an id and a timestamp that is
\* no date, before a good block: the call raised, returning neither the
\* first page's post nor the good block's
C35_RaisedOnBadDate ==
  /\ ppc = "raised"
  /\ p_fetched = <<PostsPage(<<Block(7, "t1")>>),
                   PostsPage(<<Block(8, "bad"), Block(7, "t1")>>)>>
  /\ p_result = <<>>

(***************************************************************************)
(* Claims about the choice among candidates, checked under SpecCand         *)
(***************************************************************************)
\* C31: with either provider the coordinates returned are those of the
\* candidate whose sort key no candidate exceeds and that stands before
\* every other candidate of the same key.
C31_BestCandidateFirstOfMax ==
  cpc = "done" =>
    /\ c_best.pos \in 1..Len(c_cands)
    /\ \A j \in 1..Len(c_cands) :
         /\ SortKey(c_provider, c_cands[j].tier)
              <= SortKey(c_provider, c_cands[c_best.pos].tier)
         /\ SortKey(c_provider, c_cands[j].tier)
              = SortKey(c_provider, c_cands[c_best.pos].tier) => c_best.pos <= j

\* three candidates, the second and third of the highest tier and the first
\* of a lower one: the second was returned
C31_Witness ==
  /\ cpc = "done"
  /\ Len(c_cands) = 3
  /\ c_cands[1].tier \in {"APPROXIMATE", "other"}
  /\ c_cands[2].tier \in {"ROOFTOP", "exact"}
  /\ c_cands[3].tier = c_cands[2].tier
  /\ c_best.pos = 2

\* C32: the confidence returned is the table value of the tier of the
\* candidate returned (of the default tier when the candidate names none),
\* 0.4 when the table does not have the tier; it lies between 0 and 1; no
\* candidate of the answer has a tier that maps to more.
C32_ConfidenceOfBest ==
  cpc = "done" =>
    LET tier == c_cands[c_best.pos].tier
        Table == [ROOFTOP |-> 10, GEOMETRIC_CENTER |-> 6, APPROXIMATE |-> 4,
                  exact |-> 10, street |-> 6, other |-> 4, missing |-> 4,
                  unknown |-> 4]
    IN  /\ c_best.confidence = Table[tier]
        /\ c_best.confidence \in 0..10
        /\ c_best.confidence # 0
        /\ \A j \in 1..Len(c_cands) : Table[c_cands[j].tier] <= c_best.confidence

\* an answer whose candidates all carry a tier the table does not have: the
\* first was returned with confidence 0.4
C32_Witness ==
  /\ cpc = "done"
  /\ Len(c_cands) = 2
  /\ c_cands[1].tier = "unknown"
  /\ c_cands[2].tier = "unknown"
  /\ c_best = [pos |-> 1, confidence |-> 4]

(***************************************************************************)
(* Claims about the login form, checked under SpecForm                      *)
(***************************************************************************)
\* C33: the form submitted is the first form with a login and a password
\* input; the first form whose action has the marker is submitted only when
\* no form has both inputs; with neither there is no POST (fails: the form
\* whose action has the marker is looked for first).
C33_FormSelection ==
  mpc = "done" =>
    LET with_inputs == {i \in 1..Len(m_forms) : m_forms[i].inputs}
        with_marker == {i \in 1..Len(m_forms) : m_forms[i].marker}
    IN  IF with_inputs # {}
        THEN /\ m_posted
             /\ m_form \in with_inputs
             /\ \A i \in with_inputs : m_form <= i
        ELSE IF with_marker # {}
        THEN /\ m_posted
             /\ m_form \in with_marker
             /\ \A i \in with_marker : m_form <= i
        ELSE ~m_posted /\ m_form = 0

\* the page's first form has both inputs and the second only the marker in
\* its action: the second was submitted
C33_MarkerFormSubmitted ==
  /\ mpc = "done"
  /\ m_forms = <<[marker |-> FALSE, inputs |-> TRUE],
                 [marker |-> TRUE, inputs |-> FALSE]>>
  /\ m_form = 2
  /\ m_posted


(***************************************************************************)
(* Claims about the admin panel, checked under SpecGate                     *)
(***************************************************************************)
GatedHandlers == {"retry_post_attachments_handler", "update_topic_coords_handler",
                  "delete_post", "restore_post_handler"}

\* C39: one of the four mutating admin requests made without an
\* authenticated session leaves the rows and the files as they were and
\* attempts no download; the session flag turns on only in a login_submit
\* given the configured admin user and password, and is off after logout
C39_AdminGating ==
  \A i \in 1..Len(a_log) :
    LET e == a_log[i] IN
      /\ (e.handler \in GatedHandlers /\ ~e.session_before)
           => /\ e.db_after = e.db_before
              /\ e.files_after = e.files_before
              /\ e.attempted = {}
      /\ (~e.session_before /\ e.session_after)
           => (e.handler = "login_submit" /\ e.credentials_ok)
      /\ e.handler = "logout" => ~e.session_after
      /\ (i = Len(a_log) => a_session = e.session_after)

\* a login with the configured credentials, a logout, and then a retry for
\* the post with an attachment that changed nothing and downloaded nothing
C39_Witness ==
  /\ Len(a_log) = 3
  /\ a_log[1].handler = "login_submit" /\ a_log[1].session_after
  /\ a_log[2].handler = "logout" /\ a_log[2].session_before
  /\ a_log[3].handler = "retry_post_attachments_handler"
  /\ a_log[3].attempted = {}
  /\ a_log[3].db_after = a_log[3].db_before
  /\ db.attachments = {SeedAttachment}

\* an authenticated retry did download, and an authenticated delete did
\* change the rows
C39_AuthenticatedActs ==
  /\ Len(a_log) = 3
  /\ a_log[2].handler = "retry_post_attachments_handler"
  /\ a_log[2].attempted = {1}
  /\ a_log[3].handler = "delete_post"
  /\ a_log[3].db_after # a_log[3].db_before


(***************************************************************************)
(* Claims about the end of run(), checked under SpecLoop                    *)
(***************************************************************************)
\* the counts of the calls of a run stay within what the loops allow
LoopBounds ==
  /\ loop.attempt <= Retries /\ loop.made <= Retries
  /\ loop.gets <= Attempts /\ loop.refreshes <= 1
  /\ loop.listing_pages <= loop.max_forum_pages
  /\ loop.topic_pages <= loop.max_topic_pages
  /\ loop.probes <= 1

\* C40: a run() over a finite listing, each of whose network calls returns
\* or fails, comes to its end, and on the way a page fetch makes at most 3
\* attempts, an attachment download at most 2 GETs and 1 forced refresh,
\* the listing takes at most max_forum_pages pages and a topic at most
\* max_topic_pages pages of posts besides the probe of its first page
C40_RunTerminates == [](LoopBounds) /\ <>(loop.pc = "done")

\* a run that ended after a fetch of 3 attempts and a download of 2 GETs
\* and one forced refresh, with every listing page and, for its last topic,
\* the probe and max_topic_pages pages fetched
C40_Witness ==
  /\ loop.pc = "done"
  /\ loop.made = Retries
  /\ loop.gets = Attempts /\ loop.refreshes = 1
  /\ loop.max_forum_pages = 2 /\ loop.listing_pages = 2
  /\ loop.max_topic_pages = 2 /\ loop.topic_pages = 2
  /\ loop.last_page = 3 /\ loop.probes = 1

====
